---- MODULE Spec2Model ----
(***************************************************************************)
(* Token and signing-key lifecycle of go-auth: the KeySet, JWKS and        *)
(* session entries kept in the shared cache (Redis), key initialization,   *)
(* token issuance, request authentication, refresh and logout; and the     *)
(* accounts, password resets and role assignments kept in the database.    *)
(*                                                                         *)
(* Time is the Unix clock in whole seconds.  A cache entry carries the     *)
(* instant at which its TTL runs out and reads treat it as absent from     *)
(* that instant on (Redis expiry).  A key is identified by its kid (the    *)
(* second it was generated in, "key-<unix>") and by its material `mat`,    *)
(* a fresh number per generated RSA pair; a signature made with one        *)
(* material verifies only under the same material.  RS256 signing is       *)
(* deterministic, so a token string is a function of its header and        *)
(* claims and of the key that signed it: a token is the record of those.   *)
(***************************************************************************)
EXTENDS Integers, FiniteSets, Sequences, TLC

\* ------------------------------------------------------------------ bounds
MaxTicks == 2
MaxKeys == 2
MaxTokens == 2
MaxResets == 1
MaxAudit == 2

\* ------------------------------------------------------- program constants
TokenExpiry == 100
keyExpiryDays == 30
KeySetTTL == 3600 * 24 * keyExpiryDays
ResetExpiry == 3600
SigninExpiresIn == 1800
VerificationExpiry == 86400

Users == {"u1", "u2"}
InitProcs == {"server", "job"}
Workers == {"w1", "w2"}
Clis == {"c1", "c2"}
Passwords == {1, 2}

\* Clock advances the model takes: one second, a token lifetime, a KeySet
\* lifetime less a second.
Jumps == {1, TokenExpiry, KeySetTTL - 1}

VARIABLES
    now,        \* Unix time, seconds
    ticks,      \* clock advances taken so far
    keyset,     \* cache entry auth:keyset
    jwks,       \* cache entry auth:jwks
    sessions,   \* cache entries auth:token:<userID>
    keySeq,     \* RSA pairs generated so far
    issued,     \* tokens CreateJWT has returned
    initPc,     \* loadOrGenerateKeys: position of each process
    initLoc,    \* loadOrGenerateKeys: locals of each process
    rpc,        \* RefreshToken: position of each handler goroutine
    rloc,       \* RefreshToken: locals of each handler goroutine
    hist,       \* what has happened to each user's tokens
    serverUp,   \* a server has initialized its keys and serves requests
    jobUp,      \* the jwks-refresh job has made its initial call and ticks
    last        \* the operation that led to this state and what it returned

VARIABLES
    users,              \* table users: the row of each user, if any
    emailVerifications, \* table email_verifications: the row Signup made
    passwordResets,     \* table password_resets, in order of creation
    resetPc,            \* ResetPassword: position of each handler goroutine
    resetLoc,           \* ResetPassword: locals of each handler goroutine
    userRoles,          \* table user_roles: <<user, role>>
    rolePermissions,    \* table role_permissions: the permissions of each role
    auditLogs           \* table audit_logs

VARIABLES
    permissions,        \* table permissions: the codes it holds
    roles,              \* table roles: the codes it holds
    assignPc,           \* AssignRole: position of each handler goroutine
    assignLoc,          \* AssignRole: locals of each handler goroutine
    superPc,            \* create-superuser: position of each invocation
    superLoc            \* create-superuser: locals of each invocation

rbacVars == <<permissions, roles, assignPc, assignLoc, superPc, superLoc>>

dbVars == <<users, emailVerifications, passwordResets, resetPc, resetLoc,
            userRoles, rolePermissions, auditLogs, rbacVars>>

vars == <<now, ticks, keyset, jwks, sessions, keySeq, issued,
          initPc, initLoc, rpc, rloc, hist, serverUp, jobUp, last,
          users, emailVerifications, passwordResets, resetPc, resetLoc,
          userRoles, rolePermissions, auditLogs,
          permissions, roles, assignPc, assignLoc, superPc, superLoc>>

\* ------------------------------------------------------------------ values
NoKey == [kid |-> 0 - 1, mat |-> 0, createdAt |-> 0]

NoToken == [alg |-> "", kid |-> 0 - 1, mat |-> 0, sub |-> "", iat |-> 0, exp |-> 0]

\* A string that is not a JWT (also what getTokenFromRequest yields for a
\* header that is not "Bearer <token>": the empty string).
Malformed == [NoToken EXCEPT !.alg = "malformed"]

Absent == [present |-> FALSE, keys |-> {}, tok |-> NoToken, expAt |-> 0]

KeySetEntry(keys, ttl) ==
    [present |-> TRUE, keys |-> keys, tok |-> NoToken, expAt |-> now + ttl]

\* The session entry CreateJWT sets.  Its TTL counts from the instant of the
\* Set, which lies within second `now` and after the time.Now() the exp claim
\* (whole seconds) was computed from: the entry can still be read in the
\* first part of second now + ttl, and is gone from the next second on.
SessionEntry(tok, ttl) ==
    [present |-> TRUE, keys |-> {}, tok |-> tok, expAt |-> now + ttl + 1]

\* redis GET: the entry is there and its TTL has not run out.
Live(e) == e.present /\ now < e.expAt

\* An HTTP answer: status, machine-readable error code and message.  The
\* status "next" stands for the protected handler having been run.
Response(status, code, msg) == [status |-> status, code |-> code, msg |-> msg]

NoResponse == Response("", "", "")

\* The operation that took the last step and what it answered: ok and code
\* (the error), user (the authenticated subject or the user served), tok and
\* out (the token a refresh was given and the one it returned).  run counts
\* the InitializeKeys calls that have returned success one right after the
\* other, this one included (2 stands for two or more); second says that
\* another refresh of the same token, in flight together with this one, has
\* been answered 200 with a new token already.  On success code names the
\* path InitializeKeys took ("loaded" or "generated").  tick says that the
\* InitializeKeys call was made on a tick of the jwks-refresh job.  For a
\* request, hdr is the form of its Authorization header, tok the token taken
\* from it, resp the answer and reads the number of cache GETs it made.
\* body is the key material an answer of the JWKS endpoint carries, lock the
\* hold on keyMutex under which the operation accessed the KeySet, and had
\* says that the session entry a Logout deleted was there.  expiresAt is the
\* ExpiresAt of a sign-in response, created the rows an init run inserted,
\* role the role a request to update permissions named.
NoLast == [op |-> "", proc |-> "", user |-> "", tok |-> NoToken,
           out |-> NoToken, ok |-> FALSE, code |-> "", run |-> 0,
           second |-> FALSE, tick |-> FALSE, hdr |-> "", reads |-> 0,
           resp |-> NoResponse, body |-> {}, lock |-> "", had |-> FALSE,
           expiresAt |-> 0, created |-> {}, role |-> ""]

\* getErr: cache.Get returned an error that is not redis.Nil; keysMap: the
\* map built around the generated key (empty until then).
InitLocals == [getErr |-> FALSE, keysMap |-> {}]

\* tok: the token presented; new: the one CreateJWT returned; peerDone: a
\* refresh of the same token by another goroutine was answered 200 with
\* another token than the one presented while this one was in flight.
RefreshLocals == [tok |-> NoToken, new |-> NoToken, peerDone |-> FALSE]

\* latest: the token CreateJWT returned last for the user; state: what has
\* happened to the user's session since ("active": nothing).
NoHist == [latest |-> NoToken, state |-> "none"]

\* bcrypt: a hash matches the password it was made from and no other.
HashPasswords(p) == [bcrypt |-> p]

ComparePasswords(h, p) == h = HashPasswords(p)

NoUser == [exists |-> FALSE, active |-> FALSE, verified |-> FALSE,
           hash |-> HashPasswords(0)]

NoVerification == [present |-> FALSE, isUsed |-> FALSE, expiresAt |-> 0]

\* token: the reset token of the request (0: none); hash: the new hash;
\* before: the tokens issued when the call began; after: the call began
\* after another call with the same token had returned success.
ResetLocals == [token |-> 0, hash |-> HashPasswords(0), before |-> {},
                after |-> FALSE]

\* AssignRole: the Authorization header, the user and the role of the
\* request.
AssignLocals == [hdr |-> [form |-> "", tok |-> NoToken], target |-> "",
                 role |-> ""]

\* create-superuser: the user it creates.
SuperLocals == [user |-> ""]

\* The documented configuration of `go-auth init` (docs/SETUP.md:420-462).
\* A permission code is the sequence of its parts between the dots:
\* "users.read" is <<"users", "read">>, the wildcard "users.*" is
\* <<"users", "*">> and "*" is <<"*">>.
PermissionConfigs == << <<"users", "read">>, <<"users", "write">> >>

Permissions == {PermissionConfigs[i] : i \in DOMAIN PermissionConfigs}

RoleConfigs == <<"super-admin", "admin", "user">>

Roles == {RoleConfigs[i] : i \in DOMAIN RoleConfigs}

RoleConfig ==
    [r \in Roles |->
        [isSystem |-> r \in {"super-admin", "admin"},
         isDefault |-> r = "user",
         maxUsers |-> IF r = "super-admin" THEN 1 ELSE 0,   \* 0: none (nil)
         permissions |->
            CASE r = "super-admin" -> {<<"*">>}
              [] r = "admin" -> {<<"users", "*">>, <<"rbac", "*">>}
              [] OTHER -> {<<"users", "read", "self">>,
                           <<"users", "write", "self">>}]]

\* strings.HasPrefix(code, prefix + ".") || code == prefix, part_013:168.
HasPrefix(code, prefix) ==
    \/ /\ Len(code) > Len(prefix)
       /\ SubSeq(code, 1, Len(prefix)) = prefix
    \/ code = prefix

\* assignPermissionsToRole, part_013:155-184: the permissions the codes and
\* wildcards of a role stand for, among those of the table.
ResolvePermissions(permCodes, allPermissions) ==
    IF <<"*">> \in permCodes
    THEN allPermissions
    ELSE {p \in allPermissions :
            \E c \in permCodes :
                IF Len(c) >= 2 /\ c[Len(c)] = "*"
                THEN HasPrefix(p, SubSeq(c, 1, Len(c) - 1))
                ELSE p = c}

\* The tables after `go-auth init` has run and before any account exists.
InitDb ==
    /\ users = [u \in Users |-> NoUser]
    /\ emailVerifications = [u \in Users |-> NoVerification]
    /\ passwordResets = <<>>
    /\ resetPc = [w \in Workers |-> "idle"]
    /\ resetLoc = [w \in Workers |-> ResetLocals]
    /\ userRoles = {}
    /\ permissions = Permissions
    /\ roles = Roles
    /\ rolePermissions =
            [r \in Roles |->
                ResolvePermissions(RoleConfig[r].permissions, Permissions)]
    /\ auditLogs = {}
    /\ assignPc = [w \in Workers |-> "idle"]
    /\ assignLoc = [w \in Workers |-> AssignLocals]
    /\ superPc = [c \in Clis |-> "idle"]
    /\ superLoc = [c \in Clis |-> SuperLocals]

InitCache ==
    /\ now = 0
    /\ ticks = 0
    /\ keyset = Absent
    /\ jwks = Absent
    /\ sessions = [u \in Users |-> Absent]
    /\ keySeq = 0
    /\ issued = {}
    /\ initPc = [p \in InitProcs |-> "idle"]
    /\ initLoc = [p \in InitProcs |-> InitLocals]
    /\ rpc = [w \in Workers |-> "idle"]
    /\ rloc = [w \in Workers |-> RefreshLocals]
    /\ hist = [u \in Users |-> NoHist]
    /\ serverUp = FALSE
    /\ jobUp = FALSE
    /\ last = NoLast

Init == InitDb /\ InitCache

\* The tables after the migration and before `go-auth init` has run.
InitEmptyDb ==
    /\ users = [u \in Users |-> NoUser]
    /\ emailVerifications = [u \in Users |-> NoVerification]
    /\ passwordResets = <<>>
    /\ resetPc = [w \in Workers |-> "idle"]
    /\ resetLoc = [w \in Workers |-> ResetLocals]
    /\ userRoles = {}
    /\ permissions = {}
    /\ roles = {}
    /\ rolePermissions = [r \in Roles |-> {}]
    /\ auditLogs = {}
    /\ assignPc = [w \in Workers |-> "idle"]
    /\ assignLoc = [w \in Workers |-> AssignLocals]
    /\ superPc = [c \in Clis |-> "idle"]
    /\ superLoc = [c \in Clis |-> SuperLocals]

AllIdle ==
    /\ \A p \in InitProcs : initPc[p] = "idle"
    /\ \A w \in Workers : rpc[w] = "idle"
    /\ \A w \in Workers : resetPc[w] = "idle"
    /\ \A w \in Workers : assignPc[w] = "idle"
    /\ \A c \in Clis : superPc[c] = "idle"

\* The clock advances.  A call in flight lasts seconds at most, so the long
\* advances happen between calls only.  Until a first KeySet is stored no
\* state holds an instant, so the clock is taken to start there.
Tick(d) ==
    /\ ticks < MaxTicks
    /\ keyset.present
    /\ d > 1 => AllIdle
    /\ now' = now + d
    /\ ticks' = ticks + 1
    /\ last' = [NoLast EXCEPT !.op = "Tick"]
    /\ UNCHANGED dbVars
    /\ UNCHANGED <<keyset, jwks, sessions, keySeq, issued,
                   initPc, initLoc, rpc, rloc, hist, serverUp, jobUp>>

\* keyMutex, jwt.go:32-36: the hold a function has on it while it reads or
\* writes the KeySet.  loadOrGenerateKeys takes Lock, CreateJWT and
\* validateToken take RLock; GetPublicKeyFromCache calls getKeys with no
\* lock taken.
keyMutexHeld(fn) ==
    CASE fn = "loadOrGenerateKeys" -> "Lock"
      [] fn \in {"CreateJWT", "validateToken"} -> "RLock"
      [] OTHER -> ""

\* ------------------------------------------------------- key initialization

\* generateKey: a fresh RSA pair, its kid "key-<now>".
generateKey == [kid |-> now, mat |-> keySeq + 1, createdAt |-> now]

\* loadOrGenerateKeys, jwt.go:52-58: the stored KeySet was read and parsed,
\* so the call returns without generating.
KeysLoadedNever(getOk) == FALSE
KeysLoaded(getOk) == getOk /\ Live(keyset)

\* keysMap := map[string]*Key{key.Kid: key}
NewKeysMapEmpty(key) == {}
NewKeysMap(key) == {key}

\* The call process p makes, or is in, is one refreshJWKSKeys makes on a tick
\* of the job's ticker: the job's initial call has returned nil.
IsTick(p) == p = "job" /\ jobUp

\* loadOrGenerateKeys returns.  runServer (server.go:65-68) goes on to serve
\* requests when it returned nil and exits otherwise; runJWKSRefresh returns
\* when its initial call failed, enters its ticker loop when it returned nil
\* and stays in the loop whatever a tick's call returns.
InitReturnJobStops(p, ok, code) ==
    /\ initPc' = [initPc EXCEPT ![p] = "idle"]
    /\ serverUp' = (serverUp \/ (p = "server" /\ ok))
    /\ jobUp' = IF p = "job" THEN ok ELSE jobUp
    /\ initLoc' = [initLoc EXCEPT ![p] = InitLocals]
    /\ last' = [NoLast EXCEPT !.op = "InitializeKeys", !.proc = p,
                              !.ok = ok, !.code = code,
                              !.tick = IsTick(p),
                              !.lock = keyMutexHeld("loadOrGenerateKeys"),
                              !.run = IF ~ok THEN 0
                                      ELSE IF last.run = 0 THEN 1 ELSE 2]
InitReturn(p, ok, code) ==
    /\ initPc' = [initPc EXCEPT ![p] = "idle"]
    /\ serverUp' = (serverUp \/ (p = "server" /\ ok))
    /\ jobUp' = (jobUp \/ (p = "job" /\ ok))
    /\ initLoc' = [initLoc EXCEPT ![p] = InitLocals]
    /\ last' = [NoLast EXCEPT !.op = "InitializeKeys", !.proc = p,
                              !.ok = ok, !.code = code,
                              !.tick = IsTick(p),
                              !.lock = keyMutexHeld("loadOrGenerateKeys"),
                              !.run = IF ~ok THEN 0
                                      ELSE IF last.run = 0 THEN 1 ELSE 2]

\* cache.Get(keySetKey) and the decision to return or to generate.
InitLoad(p, getOk) ==
    /\ initPc[p] = "idle"
    /\ IF KeysLoaded(getOk)
       THEN InitReturn(p, TRUE, "loaded")
       ELSE /\ initLoc' = [initLoc EXCEPT ![p] =
                              [InitLocals EXCEPT !.getErr = ~getOk]]
            /\ initPc' = [initPc EXCEPT ![p] = "generate"]
            /\ UNCHANGED <<serverUp, jobUp>>
            /\ last' = [NoLast EXCEPT !.op = "loadOrGenerateKeys", !.proc = p,
                                      !.lock = keyMutexHeld("loadOrGenerateKeys")]
    /\ UNCHANGED dbVars
    /\ UNCHANGED <<now, ticks, keyset, jwks, sessions, keySeq, issued,
                   rpc, rloc, hist>>

\* generateKey, then cache.Set(keySetKey, keysMap, 30 days).
InitGenerate(p, setOk) ==
    /\ initPc[p] = "generate"
    /\ keySeq < MaxKeys
    /\ IF setOk
       THEN /\ keySeq' = keySeq + 1
            /\ keyset' = KeySetEntry(NewKeysMap(generateKey), KeySetTTL)
            /\ initLoc' = [initLoc EXCEPT ![p].keysMap = NewKeysMap(generateKey)]
            /\ initPc' = [initPc EXCEPT ![p] = "publish"]
            /\ UNCHANGED <<serverUp, jobUp>>
            /\ last' = [NoLast EXCEPT !.op = "loadOrGenerateKeys", !.proc = p,
                                      !.lock = keyMutexHeld("loadOrGenerateKeys")]
       ELSE /\ UNCHANGED <<keySeq, keyset>>
            /\ InitReturn(p, FALSE, "failed to store keys in Redis")
    /\ UNCHANGED dbVars
    /\ UNCHANGED <<now, ticks, jwks, sessions, issued, rpc, rloc, hist>>

\* SIGINT or SIGTERM reaches the job, part_005:103-105: its loop takes the
\* signal between two ticks and runJWKSRefresh returns.
JobQuit ==
    /\ jobUp
    /\ initPc["job"] = "idle"
    /\ jobUp' = FALSE
    /\ last' = [NoLast EXCEPT !.op = "quit", !.proc = "job", !.ok = TRUE]
    /\ UNCHANGED dbVars
    /\ UNCHANGED <<now, ticks, keyset, jwks, sessions, keySeq, issued,
                   initPc, initLoc, rpc, rloc, hist, serverUp>>

\* jwk.New(key.PublicKey) with its key ID set: the public half under the kid.
JWK(k) == [kid |-> k.kid, mat |-> k.mat]

\* updateJWKSet(keysMap): cache.Set(jwksPrefix, JWKS of keysMap, 30 days).
InitPublish(p, setOk) ==
    /\ initPc[p] = "publish"
    /\ IF setOk
       THEN /\ jwks' = KeySetEntry({JWK(k) : k \in initLoc[p].keysMap}, KeySetTTL)
            /\ InitReturn(p, TRUE, "generated")
       ELSE /\ jwks' = jwks
            /\ InitReturn(p, FALSE, "failed to store JWKS in Redis")
    /\ UNCHANGED dbVars
    /\ UNCHANGED <<now, ticks, keyset, sessions, keySeq, issued, rpc, rloc, hist>>

\* The JWKS endpoint, jwt.go:313-324 and server.go:120-129: the cached blob
\* as it is, or 500 "Internal Server Error" when cache.Get returns an error
\* (redis.Nil for an entry that is not there included).
JWKSResponseFromKeySet(getOk) ==
    IF getOk /\ Live(jwks)
    THEN [status |-> "200", body |-> jwks.keys]
    ELSE IF getOk /\ Live(keyset)
    THEN [status |-> "200", body |-> {JWK(k) : k \in keyset.keys}]
    ELSE [status |-> "500", body |-> {}]
JWKSResponse(getOk) ==
    IF getOk /\ Live(jwks)
    THEN [status |-> "200", body |-> jwks.keys]
    ELSE [status |-> "500", body |-> {}]

\* GET /.well-known/jwks.json.  code records what the cache read came to.
JWKSHandler(getOk) ==
    LET r == JWKSResponse(getOk) IN
    /\ serverUp
    /\ last' = [NoLast EXCEPT !.op = "JWKSHandler", !.ok = (r.status = "200"),
                              !.code = IF ~getOk THEN "error"
                                       ELSE IF Live(jwks) THEN "hit" ELSE "miss",
                              !.resp = Response(r.status, "", ""),
                              !.body = r.body, !.reads = 1]
    /\ UNCHANGED dbVars
    /\ UNCHANGED <<now, ticks, keyset, jwks, sessions, keySeq, issued,
                   initPc, initLoc, rpc, rloc, hist, serverUp, jobUp>>

\* ------------------------------------------------------------ issuance

\* CreateJWT, jwt.go:146-154: the key with the latest CreatedAt.
LatestKeyOldest(keys) == CHOOSE k \in keys : \A j \in keys : k.createdAt <= j.createdAt
LatestKey(keys) == CHOOSE k \in keys : \A j \in keys : j.createdAt <= k.createdAt

\* jwt.NewWithClaims(RS256, {iss, sub, exp, iat}) with header kid, signed
\* with the key's private half.
SignedToken(k, u) ==
    [alg |-> "RS256", kid |-> k.kid, mat |-> k.mat, sub |-> u,
     iat |-> now, exp |-> now + TokenExpiry]

\* What CreateJWT(u) comes to: its error, or the token it stores and returns.
CreateJWTResultLeaky(u, getOk, setOk) ==
    IF ~(getOk /\ Live(keyset))
    THEN [ok |-> FALSE, code |-> "failed to get keys", tok |-> NoToken]
    ELSE IF keyset.keys = {}
    THEN [ok |-> FALSE, code |-> "no keys available", tok |-> NoToken]
    ELSE [ok |-> setOk, code |-> IF setOk THEN "" ELSE "failed to store token in Redis",
          tok |-> SignedToken(LatestKey(keyset.keys), u)]
CreateJWTResult(u, getOk, setOk) ==
    IF ~(getOk /\ Live(keyset))
    THEN [ok |-> FALSE, code |-> "failed to get keys", tok |-> NoToken]
    ELSE IF keyset.keys = {}
    THEN [ok |-> FALSE, code |-> "no keys available", tok |-> NoToken]
    ELSE IF ~setOk
    THEN [ok |-> FALSE, code |-> "failed to store token in Redis", tok |-> NoToken]
    ELSE [ok |-> TRUE, code |-> "", tok |-> SignedToken(LatestKey(keyset.keys), u)]

\* The cache write of a successful CreateJWT and its record.
Issue(u, tok) ==
    /\ Cardinality(issued \cup {tok}) <= MaxTokens
    /\ sessions' = [sessions EXCEPT ![u] = SessionEntry(tok, TokenExpiry)]
    /\ issued' = issued \cup {tok}
    /\ hist' = [hist EXCEPT ![u] = [latest |-> tok, state |-> "active"]]

\* CreateJWT as Signin (and the legacy login handler) calls it, for a user
\* whose credentials were accepted.
CreateJWT(u, getOk, setOk) ==
    LET r == CreateJWTResult(u, getOk, setOk) IN
    /\ serverUp
    /\ IF r.ok
       THEN Issue(u, r.tok)
       ELSE UNCHANGED <<sessions, issued, hist>>
    /\ last' = [NoLast EXCEPT !.op = "CreateJWT", !.user = u, !.ok = r.ok,
                              !.code = r.code, !.out = r.tok,
                              !.lock = keyMutexHeld("CreateJWT")]
    /\ UNCHANGED dbVars
    /\ UNCHANGED <<now, ticks, keyset, jwks, keySeq, initPc, initLoc, rpc, rloc, serverUp, jobUp>>

\* ---------------------------------------------------------- validation

KeyOf(keys, kid) == CHOOSE k \in keys : k.kid = kid

\* jwt.Parse with the key lookup given as `keys` (the unmarshalled KeySet) and
\* `keysOk` (whether the KeySet could be read when the lookup asked for it):
\* structure, algorithm, kid, key lookup, signature, then the exp claim.
\* validateToken reads the KeySet before parsing and never gets here without
\* it; RequireAuth reads it inside the lookup (GetPublicKeyFromCache).
ParseTokenNoSig(tok, keysOk, keys) ==
    IF tok.alg = "malformed" THEN "token is malformed"
    ELSE IF tok.alg # "RS256" THEN "unexpected signing method"
    ELSE IF tok.kid < 0 THEN "kid header not found"
    ELSE IF ~keysOk THEN "failed to get keys"
    ELSE IF \A k \in keys : k.kid # tok.kid THEN "key not found"
    ELSE IF ~(now < tok.exp) THEN "token is expired"
    ELSE "ok"
ParseTokenNoExp(tok, keysOk, keys) ==
    IF tok.alg = "malformed" THEN "token is malformed"
    ELSE IF tok.alg # "RS256" THEN "unexpected signing method"
    ELSE IF tok.kid < 0 THEN "kid header not found"
    ELSE IF ~keysOk THEN "failed to get keys"
    ELSE IF \A k \in keys : k.kid # tok.kid THEN "key not found"
    ELSE IF KeyOf(keys, tok.kid).mat # tok.mat THEN "signature is invalid"
    ELSE "ok"
ParseToken(tok, keysOk, keys) ==
    IF tok.alg = "malformed" THEN "token is malformed"
    ELSE IF tok.alg # "RS256" THEN "unexpected signing method"
    ELSE IF tok.kid < 0 THEN "kid header not found"
    ELSE IF ~keysOk THEN "failed to get keys"
    ELSE IF \A k \in keys : k.kid # tok.kid THEN "key not found"
    ELSE IF KeyOf(keys, tok.kid).mat # tok.mat THEN "signature is invalid"
    ELSE IF ~(now < tok.exp) THEN "token is expired"
    ELSE "ok"

\* validateToken, jwt.go:270-299.
validateToken(tok, getOk) ==
    IF ~(getOk /\ Live(keyset)) THEN "failed to get keys"
    ELSE ParseToken(tok, TRUE, keyset.keys)

\* The session check of WithJWTAuth and RefreshToken: cache.Get of the
\* user's entry fails, or the stored token is another one.
SessionHoldsAny(tok, getOk) == getOk /\ Live(sessions[tok.sub])
SessionHolds(tok, getOk) ==
    getOk /\ Live(sessions[tok.sub]) /\ sessions[tok.sub].tok = tok

\* WithJWTAuth, jwt.go:226-260 (the legacy middleware).
WithJWTAuthCode(tok, cacheOk) ==
    IF validateToken(tok, cacheOk) # "ok" THEN validateToken(tok, cacheOk)
    ELSE IF ~SessionHolds(tok, cacheOk) THEN "token not found in Redis or mismatch"
    ELSE "ok"

\* RequireAuth, response.go:58-127: jwt.Parse, the claims, the subject.  There
\* is no read of the session entry.
RequireAuthCode(tok, cacheOk) ==
    ParseToken(tok, cacheOk /\ Live(keyset), keyset.keys)

\* The tokens a client can present: the issued ones, an issued one with its
\* signature altered, with a kid no key has, with no kid, or with an
\* algorithm that is not RSA, and a string that is no JWT.
Presentable ==
    issued \cup {[t EXCEPT !.mat = 0] : t \in issued}
           \cup {[t EXCEPT !.kid = t.kid + 1] : t \in issued}
           \cup {[t EXCEPT !.kid = 0 - 1] : t \in issued}
           \cup {[t EXCEPT !.alg = "HS256"] : t \in issued}
           \cup {Malformed}

\* The Authorization header of a request: none, one that is not of the form
\* "Bearer <token>", or "Bearer <token>".
NoHeader == [form |-> "missing", tok |-> NoToken]

OtherHeader == [form |-> "other", tok |-> NoToken]

Bearer(tok) == [form |-> "bearer", tok |-> tok]

Headers == {NoHeader, OtherHeader} \cup {Bearer(t) : t \in Presentable}

\* The headers of clients that present the tokens they were given.
IssuedHeaders == {Bearer(t) : t \in issued}

\* getTokenFromRequest, jwt.go:262-268: the text after "Bearer ", or the
\* empty string, which is no JWT.
getTokenFromRequest(h) == IF h.form = "bearer" THEN h.tok ELSE Malformed

PassedOn == Response("next", "", "")

\* RequireAuth, response.go:58-127: what the middleware answers.  The
\* header checks, then jwt.Parse, whose error text goes into the body.  (The
\* claims, subject and UUID checks that follow cannot fail for a token whose
\* signature verified: CreateJWT signs well-formed claims only.)
RequireAuthResponse(h, cacheOk) ==
    IF h.form = "missing"
    THEN Response("401", "MISSING_AUTH_HEADER", "Authorization header is required")
    ELSE IF h.form # "bearer"
    THEN Response("401", "INVALID_AUTH_HEADER", "Format must be: Bearer <token>")
    ELSE IF RequireAuthCode(h.tok, cacheOk) # "ok"
    THEN Response("401", "INVALID_TOKEN", RequireAuthCode(h.tok, cacheOk))
    ELSE PassedOn

\* The cache GETs RequireAuth makes: GetPublicKeyFromCache, called by
\* jwt.Parse once the token's structure, algorithm and kid header are found
\* in order.
RequireAuthReads(h) ==
    IF h.form # "bearer" \/ h.tok.alg # "RS256" \/ h.tok.kid < 0 THEN 0 ELSE 1

\* WithJWTAuth, jwt.go:226-260: every failure is permissionDenied.
WithJWTAuthResponse(h, cacheOk) ==
    IF WithJWTAuthCode(getTokenFromRequest(h), cacheOk) # "ok"
    THEN Response("403", "", "permission denied")
    ELSE PassedOn

\* The cache GETs WithJWTAuth makes: getKeys, before the token is parsed, and
\* the session entry once validateToken has returned a token.
WithJWTAuthReads(h, cacheOk) ==
    IF validateToken(getTokenFromRequest(h), cacheOk) # "ok" THEN 1 ELSE 2

\* A request to a route behind RequireAuth (GET /auth/me).
RequireAuth(h, cacheOk) ==
    LET r == RequireAuthResponse(h, cacheOk) IN
    /\ serverUp
    /\ last' = [NoLast EXCEPT !.op = "RequireAuth", !.ok = (r = PassedOn),
                              !.user = IF r = PassedOn THEN h.tok.sub ELSE "",
                              !.hdr = h.form, !.tok = h.tok, !.resp = r,
                              !.reads = RequireAuthReads(h),
                              !.lock = IF RequireAuthReads(h) > 0
                                       THEN keyMutexHeld("GetPublicKeyFromCache")
                                       ELSE ""]
    /\ UNCHANGED dbVars
    /\ UNCHANGED <<now, ticks, keyset, jwks, sessions, keySeq, issued,
                   initPc, initLoc, rpc, rloc, hist, serverUp, jobUp>>

\* A middleware that drops the session of the user a refused token names.
WithJWTAuthEvicts(h, cacheOk) ==
    LET r == WithJWTAuthResponse(h, cacheOk) IN
    /\ serverUp
    /\ last' = [NoLast EXCEPT !.op = "WithJWTAuth", !.ok = (r = PassedOn),
                              !.user = IF r = PassedOn THEN h.tok.sub ELSE "",
                              !.hdr = h.form, !.tok = h.tok, !.resp = r,
                              !.reads = WithJWTAuthReads(h, cacheOk),
                              !.lock = keyMutexHeld("validateToken")]
    /\ sessions' = [u \in Users |->
                      IF r # PassedOn /\ h.tok.sub = u THEN Absent
                      ELSE sessions[u]]
    /\ UNCHANGED dbVars
    /\ UNCHANGED <<now, ticks, keyset, jwks, keySeq, issued,
                   initPc, initLoc, rpc, rloc, hist, serverUp, jobUp>>

\* A request to a route behind WithJWTAuth (legacy GET /auth/me).
WithJWTAuth(h, cacheOk) ==
    LET r == WithJWTAuthResponse(h, cacheOk) IN
    /\ serverUp
    /\ last' = [NoLast EXCEPT !.op = "WithJWTAuth", !.ok = (r = PassedOn),
                              !.user = IF r = PassedOn THEN h.tok.sub ELSE "",
                              !.hdr = h.form, !.tok = h.tok, !.resp = r,
                              !.reads = WithJWTAuthReads(h, cacheOk),
                              !.lock = keyMutexHeld("validateToken")]
    /\ UNCHANGED dbVars
    /\ UNCHANGED <<now, ticks, keyset, jwks, sessions, keySeq, issued,
                   initPc, initLoc, rpc, rloc, hist, serverUp, jobUp>>

\* AuthService.Logout, part_016:176-186: cache.Del of the user's session
\* entry; the call fails when Del returns an error, which it does not for a
\* key that is not there.
LogoutOkIfSession(u, delOk) == delOk /\ Live(sessions[u])
LogoutOk(u, delOk) == delOk

\* POST /auth/logout: RequireAuth, then AuthService.Logout(user) deletes the
\* user's session entry; 500 LOGOUT_ERROR when it fails, 200 otherwise.
Logout(h, cacheOk, delOk) ==
    LET r == RequireAuthResponse(h, cacheOk)
        ok == r = PassedOn /\ LogoutOk(h.tok.sub, delOk)
    IN
    /\ serverUp
    /\ IF ok
       THEN /\ sessions' = [sessions EXCEPT ![h.tok.sub] = Absent]
            /\ hist' = [hist EXCEPT ![h.tok.sub].state = "loggedOut"]
       ELSE UNCHANGED <<sessions, hist>>
    /\ last' = [NoLast EXCEPT !.op = "Logout", !.ok = ok,
                              !.hdr = h.form, !.tok = h.tok,
                              !.user = IF r = PassedOn THEN h.tok.sub ELSE "",
                              !.had = (r = PassedOn /\ Live(sessions[h.tok.sub])),
                              !.code = IF r = PassedOn /\ ~delOk
                                       THEN "del failed" ELSE "",
                              !.resp = IF r # PassedOn THEN r
                                       ELSE IF ok
                                       THEN Response("200", "", "Logged out successfully")
                                       ELSE Response("500", "LOGOUT_ERROR",
                                                     "failed to invalidate token")]
    /\ UNCHANGED dbVars
    /\ UNCHANGED <<now, ticks, keyset, jwks, keySeq, issued,
                   initPc, initLoc, rpc, rloc, serverUp, jobUp>>

\* -------------------------------------------------------------- refresh
\* RefreshToken, jwt.go:186-224, one step per cache round trip.

RefreshReturn(w, ok, code, tok, out) ==
    /\ rpc' = [rpc EXCEPT ![w] = "idle"]
    /\ rloc' = [v \in Workers |->
                  IF v = w THEN RefreshLocals
                  ELSE IF ok /\ out # tok /\ rpc[v] # "idle" /\ rloc[v].tok = tok
                  THEN [rloc[v] EXCEPT !.peerDone = TRUE]
                  ELSE rloc[v]]
    /\ last' = [NoLast EXCEPT !.op = "RefreshToken", !.proc = w, !.ok = ok,
                              !.code = code, !.tok = tok, !.out = out,
                              !.user = IF ok THEN tok.sub ELSE "",
                              !.second = ok /\ rloc[w].peerDone]

\* validateToken(getTokenFromRequest(r)); 401 "invalid token" when it fails.
RefreshValidate(w, h, cacheOk) ==
    LET tok == getTokenFromRequest(h) IN
    /\ serverUp
    /\ rpc[w] = "idle"
    /\ IF validateToken(tok, cacheOk) = "ok"
       THEN /\ rpc' = [rpc EXCEPT ![w] = "lookup"]
            /\ rloc' = [rloc EXCEPT ![w].tok = tok]
            /\ last' = [NoLast EXCEPT !.op = "refresh", !.proc = w]
       ELSE RefreshReturn(w, FALSE, "401 invalid token", tok, NoToken)
    /\ UNCHANGED dbVars
    /\ UNCHANGED <<now, ticks, keyset, jwks, sessions, keySeq, issued,
                   initPc, initLoc, hist, serverUp, jobUp>>

\* cache.Get of the session entry; 401 when absent or another token.
RefreshLookup(w, cacheOk) ==
    /\ rpc[w] = "lookup"
    /\ IF SessionHolds(rloc[w].tok, cacheOk)
       THEN /\ rpc' = [rpc EXCEPT ![w] = "create"]
            /\ rloc' = rloc
            /\ last' = [NoLast EXCEPT !.op = "refresh", !.proc = w]
       ELSE RefreshReturn(w, FALSE, "401 token not found or invalid",
                          rloc[w].tok, NoToken)
    /\ UNCHANGED dbVars
    /\ UNCHANGED <<now, ticks, keyset, jwks, sessions, keySeq, issued,
                   initPc, initLoc, hist, serverUp, jobUp>>

\* A refresh that drops the session entry when CreateJWT fails.
RefreshCreateDrops(w, getOk, setOk) ==
    LET r == CreateJWTResult(rloc[w].tok.sub, getOk, setOk) IN
    /\ rpc[w] = "create"
    /\ IF r.ok
       THEN /\ Issue(rloc[w].tok.sub, r.tok)
            /\ rpc' = [rpc EXCEPT ![w] = "delete"]
            /\ rloc' = [rloc EXCEPT ![w].new = r.tok]
            /\ last' = [NoLast EXCEPT !.op = "refresh", !.proc = w]
       ELSE /\ sessions' = [sessions EXCEPT ![rloc[w].tok.sub] = Absent]
            /\ UNCHANGED <<issued, hist>>
            /\ RefreshReturn(w, FALSE, "500 failed to create new token",
                             rloc[w].tok, NoToken)
    /\ UNCHANGED dbVars
    /\ UNCHANGED <<now, ticks, keyset, jwks, keySeq, initPc, initLoc, serverUp, jobUp>>

\* CreateJWT(userUUID); 500 when it fails.
RefreshCreate(w, getOk, setOk) ==
    LET r == CreateJWTResult(rloc[w].tok.sub, getOk, setOk) IN
    /\ rpc[w] = "create"
    /\ IF r.ok
       THEN /\ Issue(rloc[w].tok.sub, r.tok)
            /\ rpc' = [rpc EXCEPT ![w] = "delete"]
            /\ rloc' = [rloc EXCEPT ![w].new = r.tok]
            /\ last' = [NoLast EXCEPT !.op = "refresh", !.proc = w]
       ELSE /\ UNCHANGED <<sessions, issued, hist>>
            /\ RefreshReturn(w, FALSE, "500 failed to create new token",
                             rloc[w].tok, NoToken)
    /\ UNCHANGED dbVars
    /\ UNCHANGED <<now, ticks, keyset, jwks, keySeq, initPc, initLoc, serverUp, jobUp>>

\* cache.Del of the session entry (its error is not looked at), then 200
\* with the new token.
RefreshDelete(w, delOk) ==
    LET u == rloc[w].tok.sub IN
    /\ rpc[w] = "delete"
    /\ sessions' = [sessions EXCEPT ![u] = IF delOk THEN Absent ELSE @]
    /\ hist' = [hist EXCEPT ![u].state = "refreshed"]
    /\ RefreshReturn(w, TRUE, "", rloc[w].tok, rloc[w].new)
    /\ UNCHANGED dbVars
    /\ UNCHANGED <<now, ticks, keyset, jwks, keySeq, issued, initPc, initLoc, serverUp, jobUp>>

\* ------------------------------------------------------------- accounts

cacheVars == <<now, ticks, keyset, jwks, sessions, keySeq, issued,
               initPc, initLoc, rpc, rloc, hist, serverUp, jobUp>>

\* roles.IsDefaultEQ(true), First: the default role of the table, "" when
\* the query finds none.
DefaultRole ==
    IF \E r \in roles : RoleConfig[r].isDefault
    THEN CHOOSE r \in roles : RoleConfig[r].isDefault
    ELSE ""

\* AuthService.Signup, part_016:44-116: the user is created active and not
\* verified, gets the default role and a verification token of 24 hours.
Signup(u, p) ==
    /\ serverUp
    /\ IF users[u].exists
       THEN /\ UNCHANGED <<users, userRoles, emailVerifications>>
            /\ last' = [NoLast EXCEPT !.op = "Signup", !.user = u,
                                      !.code = "user already exists"]
       ELSE /\ users' = [users EXCEPT ![u] =
                            [exists |-> TRUE, active |-> TRUE, verified |-> FALSE,
                             hash |-> HashPasswords(p)]]
            /\ userRoles' = IF DefaultRole = "" THEN userRoles
                            ELSE userRoles \cup {<<u, DefaultRole>>}
            /\ emailVerifications' = [emailVerifications EXCEPT ![u] =
                    [present |-> TRUE, isUsed |-> FALSE,
                     expiresAt |-> now + VerificationExpiry]]
            /\ last' = [NoLast EXCEPT !.op = "Signup", !.user = u, !.ok = TRUE]
    /\ UNCHANGED <<passwordResets, resetPc, resetLoc, rolePermissions, auditLogs>>
    /\ UNCHANGED rbacVars
    /\ UNCHANGED cacheVars

\* handleRegister of the legacy server, handler.go:85-113: the row is created
\* with the schema's defaults, is_active and email_verified false.
handleRegister(u, p) ==
    /\ serverUp
    /\ IF users[u].exists
       THEN /\ users' = users
            /\ last' = [NoLast EXCEPT !.op = "handleRegister", !.user = u,
                                      !.code = "constraint failed"]
       ELSE /\ users' = [users EXCEPT ![u] =
                            [exists |-> TRUE, active |-> FALSE, verified |-> FALSE,
                             hash |-> HashPasswords(p)]]
            /\ last' = [NoLast EXCEPT !.op = "handleRegister", !.user = u,
                                      !.ok = TRUE]
    /\ UNCHANGED <<emailVerifications, passwordResets, resetPc, resetLoc,
                   userRoles, rolePermissions, auditLogs>>
    /\ UNCHANGED rbacVars
    /\ UNCHANGED cacheVars

\* AuthService.VerifyEmail, part_016:328-374, with the token Signup made for
\* user u.
VerifyEmail(u) ==
    /\ serverUp
    /\ IF /\ emailVerifications[u].present
          /\ ~emailVerifications[u].isUsed
          /\ emailVerifications[u].expiresAt > now
       THEN /\ users' = [users EXCEPT ![u].verified = TRUE]
            /\ emailVerifications' = [emailVerifications EXCEPT ![u].isUsed = TRUE]
            /\ last' = [NoLast EXCEPT !.op = "VerifyEmail", !.user = u, !.ok = TRUE]
       ELSE /\ UNCHANGED <<users, emailVerifications>>
            /\ last' = [NoLast EXCEPT !.op = "VerifyEmail",
                                      !.code = "invalid or expired verification token"]
    /\ UNCHANGED <<passwordResets, resetPc, resetLoc, userRoles,
                   rolePermissions, auditLogs>>
    /\ UNCHANGED rbacVars
    /\ UNCHANGED cacheVars

\* AuthService.Signin, part_016:118-174: what it comes to.
SigninResult(u, p, getOk, setOk) ==
    IF ~users[u].exists
    THEN [ok |-> FALSE, code |-> "invalid credentials", tok |-> NoToken]
    ELSE IF ~users[u].active
    THEN [ok |-> FALSE, code |-> "user account is inactive", tok |-> NoToken]
    ELSE IF ~ComparePasswords(users[u].hash, p)
    THEN [ok |-> FALSE, code |-> "invalid credentials", tok |-> NoToken]
    ELSE IF ~CreateJWTResult(u, getOk, setOk).ok
    THEN [ok |-> FALSE, code |-> "failed to create token", tok |-> NoToken]
    ELSE CreateJWTResult(u, getOk, setOk)

\* expiresAt of the sign-in response, part_016:157-158: time.Now() plus 30
\* minutes, taken right after CreateJWT has returned.
ExpiresAt == now + SigninExpiresIn

\* POST /auth/signin.
Signin(u, p, getOk, setOk) ==
    LET r == SigninResult(u, p, getOk, setOk) IN
    /\ serverUp
    /\ IF r.ok
       THEN Issue(u, r.tok)
       ELSE UNCHANGED <<sessions, issued, hist>>
    /\ last' = [NoLast EXCEPT !.op = "Signin", !.user = u, !.ok = r.ok,
                              !.code = r.code, !.out = r.tok,
                              !.expiresAt = IF r.ok THEN ExpiresAt ELSE 0,
                              !.resp = IF r.ok THEN Response("200", "", "")
                                       ELSE Response("401", "AUTH_ERROR", r.code)]
    /\ UNCHANGED dbVars
    /\ UNCHANGED <<now, ticks, keyset, jwks, keySeq, initPc, initLoc, rpc, rloc,
                   serverUp, jobUp>>

\* AuthService.ForgotPassword, part_016:250-278, and what the controller
\* answers for its result: nil for an address that is not registered, the
\* error of the token generation or of the delivery otherwise.
ForgotPasswordResponse(exists, genOk, sendOk) ==
    IF ~exists
    THEN Response("200", "",
                  "If the email exists, a password reset link has been sent")
    ELSE IF ~genOk
    THEN Response("500", "FORGOT_PASSWORD_ERROR", "failed to generate reset token")
    ELSE IF ~sendOk
    THEN Response("500", "FORGOT_PASSWORD_ERROR", "failed to send reset email")
    ELSE Response("200", "",
                  "If the email exists, a password reset link has been sent")

\* POST /auth/forgot-password, auth_controller.go:116-130, with
\* GeneratePasswordResetToken, email_service.go:333-349: a reset token of one
\* hour for a user that exists, nothing for one that does not.  genOk: the
\* insert into password_resets succeeded; sendOk: the email was handed over.
\* changes and done are not columns: the password updates made with the
\* token so far (2 stands for two or more), and whether a call with it has
\* returned success.
ForgotPassword(u, genOk, sendOk) ==
    LET r == ForgotPasswordResponse(users[u].exists, genOk, sendOk) IN
    /\ serverUp
    /\ IF users[u].exists /\ genOk
       THEN /\ Len(passwordResets) < MaxResets
            /\ passwordResets' = Append(passwordResets,
                    [user |-> u, isUsed |-> FALSE, expiresAt |-> now + ResetExpiry,
                     changes |-> 0, done |-> FALSE])
       ELSE passwordResets' = passwordResets
    /\ last' = [NoLast EXCEPT !.op = "ForgotPassword",
                              !.user = IF users[u].exists THEN u ELSE "",
                              !.ok = (r.status = "200"),
                              !.code = r.msg, !.resp = r]
    /\ UNCHANGED <<users, emailVerifications, resetPc, resetLoc, userRoles,
                   rolePermissions, auditLogs>>
    /\ UNCHANGED rbacVars
    /\ UNCHANGED cacheVars

\* ResetPassword, part_016:280-326, one step per database round trip.

\* The query for the reset record: the token, not used, not expired.
ValidReset(tok) ==
    /\ tok \in DOMAIN passwordResets
    /\ ~passwordResets[tok].isUsed
    /\ passwordResets[tok].expiresAt > now

\* A call with the token has returned success.
ResetDone(tok) == tok \in DOMAIN passwordResets /\ passwordResets[tok].done

ResetReturn(w, ok, code, u, after) ==
    /\ resetPc' = [resetPc EXCEPT ![w] = "idle"]
    /\ resetLoc' = [resetLoc EXCEPT ![w] = ResetLocals]
    /\ last' = [NoLast EXCEPT !.op = "ResetPassword", !.proc = w, !.ok = ok,
                              !.code = code, !.user = u, !.second = after,
                              !.resp = IF ok THEN Response("200", "", "")
                                       ELSE Response("400", "RESET_PASSWORD_ERROR", code)]

ResetFind(w, tok, p) ==
    /\ serverUp
    /\ resetPc[w] = "idle"
    /\ IF ValidReset(tok)
       THEN /\ resetPc' = [resetPc EXCEPT ![w] = "update"]
            /\ resetLoc' = [resetLoc EXCEPT ![w] =
                               [token |-> tok, hash |-> HashPasswords(p),
                                before |-> {t \in issued :
                                              t.sub = passwordResets[tok].user},
                                after |-> ResetDone(tok)]]
            /\ last' = [NoLast EXCEPT !.op = "resetPassword", !.proc = w]
       ELSE ResetReturn(w, FALSE, "invalid or expired reset token", "",
                        ResetDone(tok))
    /\ UNCHANGED <<users, emailVerifications, passwordResets, userRoles,
                   rolePermissions, auditLogs>>
    /\ UNCHANGED rbacVars
    /\ UNCHANGED cacheVars

\* Users.Update().SetPasswordHash.
ResetUpdate(w, dbOk) ==
    LET tok == resetLoc[w].token IN
    /\ resetPc[w] = "update"
    /\ IF dbOk
       THEN /\ users' = [users EXCEPT ![passwordResets[tok].user].hash =
                                          resetLoc[w].hash]
            /\ passwordResets' = [passwordResets EXCEPT ![tok].changes =
                                     IF @ = 0 THEN 1 ELSE 2]
            /\ resetPc' = [resetPc EXCEPT ![w] = "mark"]
            /\ resetLoc' = resetLoc
            /\ last' = [NoLast EXCEPT !.op = "resetPassword", !.proc = w]
       ELSE /\ UNCHANGED <<users, passwordResets>>
            /\ ResetReturn(w, FALSE, "failed to update password", "",
                           resetLoc[w].after)
    /\ UNCHANGED <<emailVerifications, userRoles, rolePermissions, auditLogs>>
    /\ UNCHANGED rbacVars
    /\ UNCHANGED cacheVars

\* resetRecord.Update().SetIsUsed(true); a failure is logged and the call
\* returns nil all the same.
ResetMark(w, dbOk) ==
    LET tok == resetLoc[w].token IN
    /\ resetPc[w] = "mark"
    /\ passwordResets' = [passwordResets EXCEPT ![tok].isUsed = (@ \/ dbOk),
                                                ![tok].done = TRUE]
    /\ ResetReturn(w, TRUE, "", passwordResets[tok].user, resetLoc[w].after)
    /\ UNCHANGED <<users, emailVerifications, userRoles, rolePermissions, auditLogs>>
    /\ UNCHANGED rbacVars
    /\ UNCHANGED cacheVars

\* ------------------------------------------------------------------ rbac
\* The routes of part_012:33-50.  Each is behind RequireAuth and nothing
\* else: no permission middleware is attached, and neither the controller
\* nor the service looks at the actor's roles or permissions.

\* The roles the documented configuration gives the rbac permissions to
\* ("*" and "rbac.*", docs/SETUP.md:445-454).
AdminRoles == {"super-admin", "admin"}

HoldsAdmin(u) == \E r \in AdminRoles : <<u, r>> \in userRoles

\* createAuditLog, part_011:451-467.
AuditLog(actor, action, resource, role) ==
    [actor |-> actor, action |-> action, resource |-> resource, role |-> role]

\* The answer of an rbac route and its record.
RbacReturn(op, h, r) ==
    last' = [NoLast EXCEPT !.op = op, !.ok = (r.status = "200"),
                           !.user = IF RequireAuthResponse(h, TRUE) = PassedOn
                                    THEN h.tok.sub ELSE "",
                           !.hdr = h.form, !.tok = h.tok, !.resp = r]

\* RBACService.AssignRole, part_011:139-205, behind RequireAuth, and the
\* controller's answer, rbac_controller.go:94-128; one step per stretch of
\* database reads and one for the insert.  There is no transaction around
\* them.

\* The role's max_users is set and as many rows of user_roles name the role.
RoleFull(role) ==
    /\ RoleConfig[role].maxUsers # 0
    /\ Cardinality({a \in userRoles : a[2] = role}) >= RoleConfig[role].maxUsers

AssignReturn(w, h, r) ==
    /\ assignPc' = [assignPc EXCEPT ![w] = "idle"]
    /\ assignLoc' = [assignLoc EXCEPT ![w] = AssignLocals]
    /\ last' = [NoLast EXCEPT !.op = "AssignRole", !.proc = w,
                              !.ok = (r.status = "200"),
                              !.user = IF RequireAuthResponse(h, TRUE) = PassedOn
                                       THEN h.tok.sub ELSE "",
                              !.hdr = h.form, !.tok = h.tok, !.resp = r]

\* The middleware, then the user, the role and the count of its holders
\* (141-169).
AssignRoleCheck(w, h, target, role) ==
    LET a == RequireAuthResponse(h, TRUE) IN
    /\ serverUp
    /\ assignPc[w] = "idle"
    /\ IF a # PassedOn
       THEN AssignReturn(w, h, a)
       ELSE IF ~users[target].exists
       THEN AssignReturn(w, h, Response("404", "NOT_FOUND", "user not found"))
       ELSE IF role \notin roles
       THEN AssignReturn(w, h, Response("404", "NOT_FOUND", "role not found"))
       ELSE IF RoleFull(role)
       THEN AssignReturn(w, h, Response("500", "RBAC_ERROR",
                                        "role has reached maximum users limit"))
       ELSE /\ assignPc' = [assignPc EXCEPT ![w] = "exists"]
            /\ assignLoc' = [assignLoc EXCEPT ![w] =
                                 [hdr |-> h, target |-> target, role |-> role]]
            /\ last' = [NoLast EXCEPT !.op = "assignRole", !.proc = w]
    /\ UNCHANGED <<users, emailVerifications, passwordResets, resetPc, resetLoc,
                   userRoles, rolePermissions, auditLogs>>
    /\ UNCHANGED <<permissions, roles, superPc, superLoc>>
    /\ UNCHANGED cacheVars

\* Whether the user holds the role already (172-185).
AssignRoleExists(w) ==
    LET l == assignLoc[w] IN
    /\ assignPc[w] = "exists"
    /\ IF <<l.target, l.role>> \in userRoles
       THEN AssignReturn(w, l.hdr, Response("409", "CONFLICT",
                                            "role already assigned to user"))
       ELSE /\ assignPc' = [assignPc EXCEPT ![w] = "create"]
            /\ assignLoc' = assignLoc
            /\ last' = [NoLast EXCEPT !.op = "assignRole", !.proc = w]
    /\ UNCHANGED <<users, emailVerifications, passwordResets, resetPc, resetLoc,
                   userRoles, rolePermissions, auditLogs>>
    /\ UNCHANGED <<permissions, roles, superPc, superLoc>>
    /\ UNCHANGED cacheVars

\* The insert into user_roles, which the unique index on (user_id, role_id)
\* refuses for a pair that is there (user_roles.go:52-54), and the audit log
\* (188-204).
AssignRoleCreate(w) ==
    LET l == assignLoc[w] IN
    /\ assignPc[w] = "create"
    /\ IF <<l.target, l.role>> \in userRoles
       THEN /\ UNCHANGED <<userRoles, auditLogs>>
            /\ AssignReturn(w, l.hdr, Response("500", "RBAC_ERROR",
                                               "failed to assign role"))
       ELSE /\ Cardinality(auditLogs) < MaxAudit
            /\ userRoles' = userRoles \cup {<<l.target, l.role>>}
            /\ auditLogs' = auditLogs \cup
                    {AuditLog(l.hdr.tok.sub, "role.assign", l.target, l.role)}
            /\ AssignReturn(w, l.hdr, Response("200", "",
                                               "Role assigned successfully"))
    /\ UNCHANGED <<users, emailVerifications, passwordResets, resetPc, resetLoc,
                   rolePermissions>>
    /\ UNCHANGED <<permissions, roles, superPc, superLoc>>
    /\ UNCHANGED cacheVars

\* POST /rbac/users/remove-role: RBACService.RemoveRole, part_011:208-237.
RemoveRole(h, target, role) ==
    LET a == RequireAuthResponse(h, TRUE)
        r == IF a # PassedOn THEN a
             ELSE IF <<target, role>> \notin userRoles
             THEN Response("404", "NOT_FOUND", "role assignment not found")
             ELSE Response("200", "", "Role removed successfully")
    IN
    /\ serverUp
    /\ IF r.status = "200"
       THEN /\ Cardinality(auditLogs) < MaxAudit
            /\ userRoles' = userRoles \ {<<target, role>>}
            /\ auditLogs' = auditLogs \cup
                    {AuditLog(h.tok.sub, "role.remove", target, role)}
       ELSE UNCHANGED <<userRoles, auditLogs>>
    /\ RbacReturn("RemoveRole", h, r)
    /\ UNCHANGED <<users, emailVerifications, passwordResets, resetPc, resetLoc,
                   rolePermissions>>
    /\ UNCHANGED rbacVars
    /\ UNCHANGED cacheVars

\* The rows of a role in role_permissions after the inserts of the target
\* permissions that are not there and the deletes of the others
\* (part_011:326-347, part_013:200-236).  An insert or delete that fails is
\* logged and nothing more: lost are the permissions whose write failed.
WritePermissions(existing, target, lost) ==
    (existing \cup ((target \ existing) \ lost))
        \ ((existing \ target) \ lost)

\* role.IsSystem of the row bootstrap wrote from the configuration.
IsSystemNever(role) == FALSE

IsSystem(role) == RoleConfig[role].isSystem

\* PUT /rbac/roles/:id/permissions: RBACService.UpdateRolePermissions,
\* part_011:293-356.
UpdateRolePermissions(h, role, perms, lost) ==
    LET a == RequireAuthResponse(h, TRUE)
        r == IF a # PassedOn THEN a
             ELSE IF role \notin roles
             THEN Response("404", "NOT_FOUND", "role not found")
             ELSE IF IsSystem(role)
             THEN Response("403", "FORBIDDEN",
                           "cannot modify permissions of system role")
             ELSE Response("200", "", "Role permissions updated successfully")
    IN
    /\ serverUp
    /\ IF r.status = "200"
       THEN /\ Cardinality(auditLogs) < MaxAudit
            /\ rolePermissions' = [rolePermissions EXCEPT ![role] =
                                       WritePermissions(@, perms, lost)]
            /\ auditLogs' = auditLogs \cup
                    {AuditLog(h.tok.sub, "role.permissions.update", role, role)}
       ELSE UNCHANGED <<rolePermissions, auditLogs>>
    /\ last' = [NoLast EXCEPT !.op = "UpdateRolePermissions",
                              !.ok = (r.status = "200"),
                              !.user = IF a = PassedOn THEN h.tok.sub ELSE "",
                              !.hdr = h.form, !.tok = h.tok, !.resp = r,
                              !.role = role]
    /\ UNCHANGED <<users, emailVerifications, passwordResets, resetPc, resetLoc,
                   userRoles>>
    /\ UNCHANGED rbacVars
    /\ UNCHANGED cacheVars

\* GET /rbac/audit-logs: RBACService.GetAuditLogs, part_011:359-406, with no
\* filter.
GetAuditLogs(h) ==
    LET a == RequireAuthResponse(h, TRUE)
        r == IF a # PassedOn THEN a
             ELSE Response("200", "", "Audit logs retrieved successfully")
    IN
    /\ serverUp
    /\ last' = [NoLast EXCEPT !.op = "GetAuditLogs", !.ok = (r.status = "200"),
                              !.user = IF a = PassedOn THEN h.tok.sub ELSE "",
                              !.hdr = h.form, !.tok = h.tok, !.resp = r,
                              !.body = IF a = PassedOn THEN auditLogs ELSE {}]
    /\ UNCHANGED dbVars
    /\ UNCHANGED cacheVars

\* ------------------------------------------------------------ commands

\* go-auth admin create-superuser, part_004:52-131, one step per stretch of
\* database reads and one per write.

SuperReturn(c, ok, code, u) ==
    /\ superPc' = [superPc EXCEPT ![c] = "idle"]
    /\ superLoc' = [superLoc EXCEPT ![c] = SuperLocals]
    /\ last' = [NoLast EXCEPT !.op = "createSuperuser", !.proc = c, !.ok = ok,
                              !.code = code, !.user = u]

\* UserRoles.Query().Where().Count(): the filter is empty (part_004:78-82),
\* so every row of user_roles is counted, whatever its role.
ExistingCount == Cardinality(userRoles)

\* The super-admin role and the count of existing assignments (65-87).  An
\* error of the count is not looked at: the command goes on.
SuperCheck(c, u, countOk) ==
    /\ superPc[c] = "idle"
    /\ IF "super-admin" \notin roles
       THEN SuperReturn(c, FALSE, "super-admin role not found", u)
       ELSE IF /\ RoleConfig["super-admin"].maxUsers = 1
               /\ countOk
               /\ ExistingCount >= 1
       THEN SuperReturn(c, FALSE, "super-admin user already exists", u)
       ELSE /\ superPc' = [superPc EXCEPT ![c] = "create"]
            /\ superLoc' = [superLoc EXCEPT ![c] = [user |-> u]]
            /\ last' = [NoLast EXCEPT !.op = "createSuperuserStep", !.proc = c]
    /\ UNCHANGED <<users, emailVerifications, passwordResets, resetPc, resetLoc,
                   userRoles, rolePermissions, auditLogs>>
    /\ UNCHANGED <<permissions, roles, assignPc, assignLoc>>
    /\ UNCHANGED cacheVars

\* Users.Create() (96-107): active and verified; the unique index on email
\* refuses an address that is taken.
SuperCreate(c, p) ==
    LET u == superLoc[c].user IN
    /\ superPc[c] = "create"
    /\ IF users[u].exists
       THEN /\ users' = users
            /\ SuperReturn(c, FALSE, "failed to create user", u)
       ELSE /\ users' = [users EXCEPT ![u] =
                            [exists |-> TRUE, active |-> TRUE, verified |-> TRUE,
                             hash |-> HashPasswords(p)]]
            /\ superPc' = [superPc EXCEPT ![c] = "assign"]
            /\ superLoc' = superLoc
            /\ last' = [NoLast EXCEPT !.op = "createSuperuserStep", !.proc = c]
    /\ UNCHANGED <<emailVerifications, passwordResets, resetPc, resetLoc,
                   userRoles, rolePermissions, auditLogs>>
    /\ UNCHANGED <<permissions, roles, assignPc, assignLoc>>
    /\ UNCHANGED cacheVars

\* UserRoles.Create() (109-117); when it fails the user is deleted, the
\* result of the delete not looked at.
SuperAssign(c, dbOk, delOk) ==
    LET u == superLoc[c].user IN
    /\ superPc[c] = "assign"
    /\ IF dbOk
       THEN /\ userRoles' = userRoles \cup {<<u, "super-admin">>}
            /\ users' = users
            /\ SuperReturn(c, TRUE, "", u)
       ELSE /\ userRoles' = userRoles
            /\ users' = [users EXCEPT ![u] = IF delOk THEN NoUser ELSE @]
            /\ SuperReturn(c, FALSE, "failed to assign super-admin role", u)
    /\ UNCHANGED <<emailVerifications, passwordResets, resetPc, resetLoc,
                   rolePermissions, auditLogs>>
    /\ UNCHANGED <<permissions, roles, assignPc, assignLoc>>
    /\ UNCHANGED cacheVars

\* go-auth init, part_006:32-103: BootstrapPermissions, then BootstrapRoles
\* with assignPermissionsToRole for each role, over the configuration in its
\* order.  stop is the number of permissions and roles dealt with before a
\* database error ended the run (all of them: none did); half says that the
\* row of the role the run ended at was written and the query of its
\* permissions failed; lost are the inserts into and deletes from
\* role_permissions that failed, which are logged and nothing more.  A row
\* that exists is updated with the values of the configuration, which it
\* holds already.
Created(table, role, perm) == [table |-> table, role |-> role, perm |-> perm]

runInit(stop, half, lost) ==
    LET NP == Len(PermissionConfigs)
        NR == Len(RoleConfigs)
        permsIn == {PermissionConfigs[i] : i \in 1..(IF stop < NP THEN stop ELSE NP)}
        allPermissions == permissions \cup permsIn
        k == IF stop < NP THEN 0 ELSE stop - NP
        rolesDone == {RoleConfigs[i] : i \in 1..k}
        rolesHalf == IF stop >= NP /\ k < NR /\ half
                     THEN {RoleConfigs[k + 1]} ELSE {}
        after == [r \in Roles |->
                    IF r \in rolesDone
                    THEN WritePermissions(
                            rolePermissions[r],
                            ResolvePermissions(RoleConfig[r].permissions,
                                               allPermissions),
                            {q \in Permissions : <<r, q>> \in lost})
                    ELSE rolePermissions[r]]
        ok == stop = NP + NR
    IN
    /\ half => (NP <= stop /\ stop < NP + NR)
    /\ permissions' = allPermissions
    /\ roles' = roles \cup rolesDone \cup rolesHalf
    /\ rolePermissions' = after
    /\ last' = [NoLast EXCEPT
                  !.op = "runInit", !.ok = ok,
                  !.code = IF ok THEN ""
                           ELSE IF stop < NP THEN "failed to bootstrap permissions"
                           ELSE "failed to bootstrap roles",
                  !.created =
                       {Created("permissions", "", q) : q \in permsIn \ permissions}
                  \cup {Created("roles", r, <<>>) :
                            r \in (rolesDone \cup rolesHalf) \ roles}
                  \cup {Created("role_permissions", x[1], x[2]) :
                            x \in {y \in Roles \X Permissions :
                                     y[2] \in after[y[1]] \ rolePermissions[y[1]]}}]
    /\ UNCHANGED <<users, emailVerifications, passwordResets, resetPc, resetLoc,
                   userRoles, auditLogs>>
    /\ UNCHANGED <<assignPc, assignLoc, superPc, superLoc>>
    /\ UNCHANGED cacheVars

createSuperuser(C) ==
    \/ \E c \in C, u \in Users, countOk \in BOOLEAN : SuperCheck(c, u, countOk)
    \/ \E c \in C, p \in Passwords : SuperCreate(c, p)
    \/ \E c \in C, dbOk, delOk \in BOOLEAN : SuperAssign(c, dbOk, delOk)

\* ------------------------------------------------------- specifications

KeyInit(P, F) ==
    \/ \E p \in P, getOk \in F : InitLoad(p, getOk)
    \/ \E p \in P, setOk \in F : InitGenerate(p, setOk)
    \/ \E p \in P, setOk \in F : InitPublish(p, setOk)

\* Sign-ins of the users U and requests with the headers H.
Requests(U, H) ==
    \/ \E u \in U, getOk, setOk \in BOOLEAN : CreateJWT(u, getOk, setOk)
    \/ \E h \in H, cacheOk \in BOOLEAN : RequireAuth(h, cacheOk)
    \/ \E h \in H, cacheOk \in BOOLEAN : WithJWTAuth(h, cacheOk)

Refresh(W, H) ==
    \/ \E w \in W, h \in H, cacheOk \in BOOLEAN :
          RefreshValidate(w, h, cacheOk)
    \/ \E w \in W, cacheOk \in BOOLEAN : RefreshLookup(w, cacheOk)
    \/ \E w \in W, getOk, setOk \in BOOLEAN : RefreshCreate(w, getOk, setOk)
    \/ \E w \in W, delOk \in BOOLEAN : RefreshDelete(w, delOk)

AssignRole(W, H) ==
    \/ \E w \in W, h \in H, t \in Users, r \in Roles : AssignRoleCheck(w, h, t, r)
    \/ \E w \in W : AssignRoleExists(w)
    \/ \E w \in W : AssignRoleCreate(w)

\* The whole system.
Next ==
    \/ \E d \in Jumps : Tick(d)
    \/ KeyInit(InitProcs, BOOLEAN)
    \/ Requests(Users, Headers)
    \/ \E h \in Headers, cacheOk, delOk \in BOOLEAN : Logout(h, cacheOk, delOk)
    \/ Refresh(Workers, Headers)
    \/ \E getOk \in BOOLEAN : JWKSHandler(getOk)
    \/ JobQuit

Spec == Init /\ [][Next]_vars

\* Key lifecycle: the server and the jwks-refresh job initialize keys while
\* one user signs in and presents tokens.
NextKeys ==
    \/ \E d \in Jumps : Tick(d)
    \/ KeyInit(InitProcs, BOOLEAN)
    \/ Requests({"u1"}, IssuedHeaders)
    \/ \E getOk \in BOOLEAN : JWKSHandler(getOk)

SpecKeys == Init /\ [][NextKeys]_vars

\* Sessions: one server, its users signing in, presenting tokens, logging
\* out and refreshing.
NextSessions ==
    \/ \E d \in {1, TokenExpiry} : Tick(d)
    \/ KeyInit({"server"}, {TRUE})
    \/ Requests(Users, IssuedHeaders)
    \/ \E h \in IssuedHeaders, cacheOk, delOk \in BOOLEAN : Logout(h, cacheOk, delOk)
    \/ Refresh({"w1"}, Headers)

SpecSessions == Init /\ [][NextSessions]_vars

\* Concurrent refreshes of one user's token.
NextRace ==
    \/ Tick(1)
    \/ KeyInit({"server"}, {TRUE})
    \/ \E getOk, setOk \in BOOLEAN : CreateJWT("u1", getOk, setOk)
    \/ Refresh(Workers, IssuedHeaders)

SpecRace == Init /\ [][NextRace]_vars

\* Two processes initialize keys against the same cache, every cache
\* operation succeeding, and users sign in.
NextInitRace ==
    \/ Tick(1)
    \/ KeyInit(InitProcs, {TRUE})
    \/ \E u \in Users : CreateJWT(u, TRUE, TRUE)

SpecInitRace == Init /\ [][NextInitRace]_vars

\* Request authentication: one server and one user, clients presenting any
\* header, over a token's lifetime.
NextRequests ==
    \/ \E d \in {1, TokenExpiry} : Tick(d)
    \/ KeyInit({"server"}, {TRUE})
    \/ Requests({"u1"}, Headers)
    \/ Refresh({"w1"}, Headers)

SpecRequests == Init /\ [][NextRequests]_vars

\* Sign-in: one server and one user, who registers with either server,
\* verifies the address and signs in.
NextSignin ==
    \/ \E d \in {1, VerificationExpiry} : Tick(d)
    \/ KeyInit({"server"}, {TRUE})
    \/ Signup("u1", 1)
    \/ handleRegister("u1", 1)
    \/ VerifyEmail("u1")
    \/ \E p \in Passwords, getOk, setOk \in BOOLEAN : Signin("u1", p, getOk, setOk)
    \/ \E h \in IssuedHeaders : RequireAuth(h, TRUE)
    \/ \E u \in Users, genOk, sendOk \in BOOLEAN : ForgotPassword(u, genOk, sendOk)

SpecSignin == Init /\ [][NextSignin]_vars

\* The state after the server has initialized its keys in second 0 and the
\* user u1 has signed up with password 1.
SignedUp ==
    /\ now = 0
    /\ ticks = 0
    /\ keyset = KeySetEntry({[kid |-> 0, mat |-> 1, createdAt |-> 0]}, KeySetTTL)
    /\ jwks = KeySetEntry({JWK(k) : k \in keyset.keys}, KeySetTTL)
    /\ sessions = [u \in Users |-> Absent]
    /\ keySeq = 1
    /\ issued = {}
    /\ initPc = [p \in InitProcs |-> "idle"]
    /\ initLoc = [p \in InitProcs |-> InitLocals]
    /\ rpc = [w \in Workers |-> "idle"]
    /\ rloc = [w \in Workers |-> RefreshLocals]
    /\ hist = [u \in Users |-> NoHist]
    /\ serverUp = TRUE
    /\ jobUp = FALSE
    /\ users = [u \in Users |->
                  IF u = "u1"
                  THEN [exists |-> TRUE, active |-> TRUE, verified |-> FALSE,
                        hash |-> HashPasswords(1)]
                  ELSE NoUser]
    /\ emailVerifications = [u \in Users |->
                  IF u = "u1"
                  THEN [present |-> TRUE, isUsed |-> FALSE,
                        expiresAt |-> VerificationExpiry]
                  ELSE NoVerification]
    /\ passwordResets = <<>>
    /\ resetPc = [w \in Workers |-> "idle"]
    /\ resetLoc = [w \in Workers |-> ResetLocals]
    /\ userRoles = {<<"u1", "user">>}
    /\ permissions = Permissions
    /\ roles = Roles
    /\ rolePermissions =
            [r \in Roles |->
                ResolvePermissions(RoleConfig[r].permissions, Permissions)]
    /\ auditLogs = {}
    /\ assignPc = [w \in Workers |-> "idle"]
    /\ assignLoc = [w \in Workers |-> AssignLocals]
    /\ superPc = [c \in Clis |-> "idle"]
    /\ superLoc = [c \in Clis |-> SuperLocals]

\* Password reset: the user signs in, asks for a reset token and resets the
\* password, two requests at a time.
InitReset == SignedUp /\ last = NoLast

NextReset ==
    \/ \E d \in {1, ResetExpiry} : Tick(d)
    \/ \E p \in Passwords : Signin("u1", p, TRUE, TRUE)
    \/ ForgotPassword("u1", TRUE, TRUE)
    \/ \E w \in Workers, tok \in 0..MaxResets, p \in Passwords : ResetFind(w, tok, p)
    \/ \E w \in Workers, dbOk \in BOOLEAN : ResetUpdate(w, dbOk)
    \/ \E w \in Workers, dbOk \in BOOLEAN : ResetMark(w, dbOk)
    \/ \E h \in IssuedHeaders : RequireAuth(h, TRUE)

SpecReset == InitReset /\ [][NextReset]_vars

\* Role management: the user, who holds the default role only, signs in and
\* calls the rbac routes, with a token or without.
InitRbac == SignedUp /\ last = NoLast

NextRbac ==
    \/ Tick(1)
    \/ Signin("u1", 1, TRUE, TRUE)
    \/ AssignRole({"w1"}, IssuedHeaders \cup {NoHeader})
    \/ \E h \in IssuedHeaders \cup {NoHeader}, t \in Users, r \in Roles :
          RemoveRole(h, t, r)
    \/ \E h \in IssuedHeaders \cup {NoHeader}, r \in Roles,
          P, lost \in SUBSET Permissions :
          UpdateRolePermissions(h, r, P, lost)
    \/ \E h \in IssuedHeaders \cup {NoHeader} : GetAuditLogs(h)

SpecRbac == InitRbac /\ [][NextRbac]_vars

\* Concurrent role assignments: two users, one of them signed in, and two
\* assign-role requests at a time.
InitAssign == SignedUp /\ last = NoLast

NextAssign ==
    \/ Signin("u1", 1, TRUE, TRUE)
    \/ Signup("u2", 1)
    \/ AssignRole(Workers, IssuedHeaders)

SpecAssign == InitAssign /\ [][NextAssign]_vars

\* create-superuser invoked twice at a time against a database `go-auth
\* init` has prepared, while users sign up with the server.
NextSuper ==
    \/ KeyInit({"server"}, {TRUE})
    \/ \E u \in Users : Signup(u, 1)
    \/ createSuperuser(Clis)

SpecSuper == Init /\ [][NextSuper]_vars

\* The commands run against a fresh database: init, any number of times,
\* with database operations failing or not (of the writes to
\* role_permissions, those for the role admin), and create-superuser.
InitBootstrap == InitEmptyDb /\ InitCache

LostWrites == SUBSET ({"admin"} \X Permissions)

NextBootstrap ==
    \/ \E stop \in 0..(Len(PermissionConfigs) + Len(RoleConfigs)),
          half \in BOOLEAN, lost \in LostWrites :
          runInit(stop, half, lost)
    \/ createSuperuser({"c1"})

SpecBootstrap == InitBootstrap /\ [][NextBootstrap]_vars

\* The jwks-refresh job alone: its initial call, its ticks, cache operations
\* failing or not, and the signal that stops it.
NextJob ==
    \/ \E d \in Jumps : Tick(d)
    \/ KeyInit({"job"}, BOOLEAN)
    \/ JobQuit

SpecJob == Init /\ [][NextJob]_vars

\* Key selection: CreateJWT over the KeySets of up to MaxKeys + 1 keys that
\* generateKey made in distinct seconds (a map holds one key per kid), the
\* server up and the JWKS listing the same keys.
KeyPool == {[kid |-> i, mat |-> i + 1, createdAt |-> i] : i \in 0..MaxKeys}

InitSelect ==
    /\ InitDb
    /\ now = MaxKeys
    /\ ticks = 0
    /\ keyset \in {KeySetEntry(K, KeySetTTL) : K \in SUBSET KeyPool \ {{}}}
    /\ jwks = KeySetEntry({JWK(k) : k \in keyset.keys}, KeySetTTL)
    /\ sessions = [u \in Users |-> Absent]
    /\ keySeq = MaxKeys + 1
    /\ issued = {}
    /\ initPc = [p \in InitProcs |-> "idle"]
    /\ initLoc = [p \in InitProcs |-> InitLocals]
    /\ rpc = [w \in Workers |-> "idle"]
    /\ rloc = [w \in Workers |-> RefreshLocals]
    /\ hist = [u \in Users |-> NoHist]
    /\ serverUp = TRUE
    /\ jobUp = FALSE
    /\ last = NoLast

NextSelect ==
    \/ Tick(1)
    \/ Requests(Users, IssuedHeaders)

SpecSelect == InitSelect /\ [][NextSelect]_vars

\* ------------------------------------------------------------------ claims

\* The token is the one CreateJWT returned last for its user and nothing has
\* happened to that user's session since: no logout, refresh or re-issue.
Current(tok) ==
    /\ tok \in issued
    /\ hist[tok.sub].latest = tok
    /\ hist[tok.sub].state = "active"

\* C1: a token returned by CreateJWT is accepted by RequireAuth and by
\* WithJWTAuth for as long as it has not expired and its user has not logged
\* out, refreshed or been issued another token.
C1_RoundTrip ==
    \A tok \in issued :
        (Current(tok) /\ now < tok.exp) =>
            /\ RequireAuthCode(tok, TRUE) = "ok"
            /\ WithJWTAuthCode(tok, TRUE) = "ok"

\* C2: once Logout has deleted a user's session entry, every token issued to
\* that user is rejected by request authentication.
C2_LogoutRevokes ==
    \A tok \in issued :
        (hist[tok.sub].state = "loggedOut" /\ ~Live(sessions[tok.sub])) =>
            /\ RequireAuthCode(tok, TRUE) # "ok"
            /\ WithJWTAuthCode(tok, TRUE) # "ok"

\* C3: a token that a later CreateJWT for the same user has superseded is
\* rejected by every request-authentication path, so at most one token per
\* user is accepted at any moment.
C3_OneSessionPerUser ==
    /\ \A tok \in issued :
          hist[tok.sub].latest # tok =>
              /\ RequireAuthCode(tok, TRUE) # "ok"
              /\ WithJWTAuthCode(tok, TRUE) # "ok"
    /\ \A u \in Users :
          Cardinality({tok \in issued :
              tok.sub = u /\ RequireAuthCode(tok, TRUE) = "ok"}) <= 1

\* C4: when RefreshToken returns T2 for T1, the user's session entry holds
\* T2, T2 is accepted and T1 is rejected.
C4_RefreshSwaps ==
    (last.op = "RefreshToken" /\ last.ok) =>
        /\ Live(sessions[last.user])
        /\ sessions[last.user].tok = last.out
        /\ WithJWTAuthCode(last.out, TRUE) = "ok"
        /\ last.tok # last.out => WithJWTAuthCode(last.tok, TRUE) # "ok"

\* C5: of two concurrent RefreshToken calls that present the same token, at
\* most one is answered with a new token.
C5_RefreshOnce ==
    ~(last.op = "RefreshToken" /\ last.ok /\ last.out # last.tok /\ last.second)

\* The token fails validateToken's checks in the current state: not an RS256
\* JWT, no readable KeySet, no key of its kid that verifies its signature, or
\* its exp reached.
C6_FailsValidation(tok) ==
    \/ tok.alg # "RS256"
    \/ ~Live(keyset)
    \/ ~\E k \in keyset.keys : k.kid = tok.kid /\ k.mat = tok.mat
    \/ tok.exp <= now

\* The session entry of the token's user is missing or holds another token.
C6_NoSession(tok) ==
    \/ ~Live(sessions[tok.sub])
    \/ sessions[tok.sub].tok # tok

\* The step answers handler w's request with an error and no token, and
\* changes neither the session registry nor the KeySet and JWKS.
C6_Denied(w) ==
    /\ rpc'[w] = "idle"
    /\ last'.op = "RefreshToken" /\ last'.proc = w
    /\ ~last'.ok /\ last'.out = NoToken
    /\ UNCHANGED <<sessions, keyset, jwks, issued, keySeq>>

\* C6: a RefreshToken call whose token fails validation, or whose session
\* entry is missing or holds another token, is answered with an error,
\* issues no token and leaves the session registry and the KeySet unchanged.
C6_RefreshDenied ==
    [][\A w \in Workers :
          /\ (/\ rpc[w] = "idle"
              /\ \/ rpc'[w] = "lookup" /\ C6_FailsValidation(rloc'[w].tok)
                 \/ /\ rpc'[w] = "idle"
                    /\ last'.op = "RefreshToken" /\ last'.proc = w
                    /\ C6_FailsValidation(last'.tok))
             => C6_Denied(w)
          /\ (/\ rpc[w] = "lookup"
              /\ rpc'[w] # "lookup"
              /\ C6_NoSession(rloc[w].tok))
             => C6_Denied(w)]_vars

\* C6 witness: a refresh of a token that validates but whose user's session
\* entry holds another token has been denied.
C6_Witness ==
    /\ last.op = "RefreshToken" /\ ~last.ok
    /\ last.tok \in issued
    /\ ~C6_FailsValidation(last.tok)
    /\ Live(sessions[last.tok.sub])
    /\ sessions[last.tok.sub].tok # last.tok

\* C7: the key that signed an unexpired issued token is still in the KeySet
\* under the token's kid.
C7_KeysOutliveTokens ==
    \A tok \in issued :
        now < tok.exp =>
            /\ Live(keyset)
            /\ \E k \in keyset.keys : k.kid = tok.kid /\ k.mat = tok.mat

\* C8: a call of InitializeKeys whose read of the KeySet failed (the entry
\* being present or not) generates no key and overwrites nothing.
C8_ReadErrorIsFatal ==
    \A p \in InitProcs : initLoc[p].getErr => initLoc[p].keysMap = {}

\* C9: an InitializeKeys call that follows right after one that returned
\* success, and whose cache read succeeds, returns success and leaves the
\* KeySet and the JWKS as they were, generating no key.
C9_InitIdempotent ==
    [][\A p \in InitProcs :
          (/\ last.op = "InitializeKeys" /\ last.ok
           /\ initPc[p] = "idle"
           /\ last'.proc = p
           /\ last'.op \in {"InitializeKeys", "loadOrGenerateKeys"}
           /\ ~initLoc'[p].getErr)
          => /\ initPc'[p] = "idle"
             /\ last'.op = "InitializeKeys" /\ last'.ok
             /\ UNCHANGED <<keyset, jwks, keySeq>>]_vars

\* C9 witness: two InitializeKeys calls in a row have returned success.
C9_Witness ==
    last.op = "InitializeKeys" /\ last.run = 2 /\ last.code = "loaded"

\* C10: when InitializeKeys returns success the stored KeySet holds a key,
\* and no CreateJWT fails for want of keys.
C10_NonEmptyKeySet ==
    /\ (last.op = "InitializeKeys" /\ last.ok) =>
           (Live(keyset) /\ keyset.keys # {})
    /\ last.op = "CreateJWT" => last.code # "no keys available"

\* C10 witness: after a successful initialization CreateJWT has signed with
\* a key of the stored KeySet.
C10_Witness ==
    /\ last.op = "CreateJWT" /\ last.ok
    /\ \E k \in keyset.keys : k.kid = last.out.kid /\ k.mat = last.out.mat

\* The kids the JWKS entry lists and those of the KeySet entry.
JWKSKids == {j.kid : j \in jwks.keys}

KeySetKids == {k.kid : k \in keyset.keys}

\* C11: whenever the InitializeKeys call that returned last returned
\* success, the JWKS entry is in the cache and lists exactly the kids of the
\* KeySet entry.
C11_JWKSListsKeySet ==
    (last.op = "InitializeKeys" /\ last.ok) =>
        /\ Live(jwks)
        /\ JWKSKids = KeySetKids

\* C12: once two processes that ran InitializeKeys against the same empty
\* cache, no cache operation failing, have both returned, the KeySet and the
\* JWKS entries list the same kids, and a token issued then carries a kid the
\* JWKS lists.
C12_ConcurrentInit ==
    ((\A p \in InitProcs : initPc[p] = "idle") /\ keyset.present) =>
        /\ Live(jwks)
        /\ JWKSKids = KeySetKids
        /\ (last.op = "CreateJWT" /\ last.ok) => last.out.kid \in JWKSKids

\* C13: an InitializeKeys call made on a tick of the jwks-refresh job that
\* returns success has generated a key, and the JWKS lists the kid of the
\* key CreateJWT signs with from then on.
C13_TickRotates ==
    (last.op = "InitializeKeys" /\ last.tick /\ last.ok) =>
        /\ last.code = "generated"
        /\ Live(jwks)
        /\ LatestKey(keyset.keys).kid \in JWKSKids

\* C14: no step of a call made on a tick of the jwks-refresh job takes a kid
\* out of the KeySet, and a token that validated before the step validates
\* after it.
C14_RotationKeepsKeys ==
    [][(/\ IsTick("job")
        /\ last'.proc = "job"
        /\ last'.op \in {"InitializeKeys", "loadOrGenerateKeys"})
       => /\ Live(keyset) => KeySetKids \subseteq KeySetKids'
          /\ \A tok \in issued :
                validateToken(tok, TRUE) = "ok" => validateToken(tok, TRUE)' = "ok"]_vars

\* The token is an RS256 JWT whose header names a kid of the readable KeySet
\* and whose signature verifies under that key.
C15_Verifies(tok) ==
    /\ tok.alg = "RS256"
    /\ tok.kid >= 0
    /\ Live(keyset)
    /\ \E k \in keyset.keys : k.kid = tok.kid /\ k.mat = tok.mat

\* C15: validation accepts a token only if its algorithm is RSA, its kid is
\* in the KeySet and its signature verifies under that key, and never when
\* the KeySet could not be read.
C15_AcceptsOnlyVerified ==
    /\ \A tok \in Presentable, cacheOk \in BOOLEAN :
          /\ validateToken(tok, cacheOk) = "ok" => (cacheOk /\ C15_Verifies(tok))
          /\ RequireAuthCode(tok, cacheOk) = "ok" => (cacheOk /\ C15_Verifies(tok))
          /\ WithJWTAuthCode(tok, cacheOk) = "ok" => (cacheOk /\ C15_Verifies(tok))
    /\ (last.op \in {"RequireAuth", "WithJWTAuth"} /\ last.ok) =>
          (last.hdr = "bearer" /\ C15_Verifies(last.tok))

\* C15 witness: RequireAuth has rejected an unexpired token that names a kid
\* of the KeySet and fails nothing but the signature check.
C15_Witness ==
    /\ last.op = "RequireAuth" /\ ~last.ok
    /\ last.tok.alg = "RS256"
    /\ Live(keyset)
    /\ \E k \in keyset.keys : k.kid = last.tok.kid /\ k.mat # last.tok.mat
    /\ now < last.tok.exp

\* C16: a token whose exp has been reached is rejected by validateToken and
\* by both middlewares, whatever the session entry holds.
C16_ExpiredRejected ==
    /\ \A tok \in issued, cacheOk \in BOOLEAN :
          tok.exp <= now =>
              /\ validateToken(tok, cacheOk) # "ok"
              /\ RequireAuthCode(tok, cacheOk) # "ok"
              /\ WithJWTAuthCode(tok, cacheOk) # "ok"
    /\ (last.op \in {"RequireAuth", "WithJWTAuth"} /\ last.tok.exp <= now) =>
          ~last.ok

\* C16 witness: WithJWTAuth has rejected an expired token whose key is in
\* the KeySet while the user's session entry still holds that token.
C16_Witness ==
    /\ last.op = "WithJWTAuth" /\ ~last.ok
    /\ last.tok \in issued
    /\ last.tok.exp <= now
    /\ C15_Verifies(last.tok)
    /\ SessionHolds(last.tok, TRUE)

\* C17: a CreateJWT whose session write failed returns an error and no
\* token, and a token CreateJWT returns is the one the session entry holds;
\* a refresh whose CreateJWT failed returns no token either.
C17_AllOrNothing ==
    /\ (last.op = "CreateJWT" /\ last.code = "failed to store token in Redis") =>
          (~last.ok /\ last.out = NoToken)
    /\ (last.op = "CreateJWT" /\ last.out # NoToken) =>
          /\ last.ok
          /\ last.out \in issued
          /\ Live(sessions[last.user])
          /\ sessions[last.user].tok = last.out
    /\ (last.op = "RefreshToken" /\ last.code = "500 failed to create new token") =>
          last.out = NoToken

\* C17 witness: CreateJWT has failed on its session write, the keys being
\* there to sign with.
C17_Witness ==
    /\ last.op = "CreateJWT"
    /\ last.code = "failed to store token in Redis"
    /\ Live(keyset) /\ keyset.keys # {}

\* C18: a request whose token is malformed or forged (not one CreateJWT
\* returned) is rejected without a cache read having been made for it.
C18_NoCacheReadForBadTokens ==
    (/\ last.op \in {"RequireAuth", "WithJWTAuth"}
     /\ last.hdr = "bearer"
     /\ last.tok \notin issued)
    => (~last.ok /\ last.reads = 0)

\* What the middleware named op answers a request with header h.
ResponseTo(op, h, cacheOk) ==
    IF op = "RequireAuth" THEN RequireAuthResponse(h, cacheOk)
    ELSE WithJWTAuthResponse(h, cacheOk)

\* C19: the answer a middleware gives a token that fails verification is the
\* answer it gives every other token that fails verification, status and
\* body, and RefreshToken answers a failed validation and a failed session
\* check alike.
C19_UniformFailure ==
    /\ (last.op \in {"RequireAuth", "WithJWTAuth"} /\ last.hdr = "bearer" /\ ~last.ok) =>
          \A t \in Presentable, cacheOk \in BOOLEAN :
              ResponseTo(last.op, Bearer(t), cacheOk) # PassedOn =>
                  ResponseTo(last.op, Bearer(t), cacheOk) = last.resp
    /\ (last.op = "RefreshToken" /\ ~last.ok
            /\ last.code # "500 failed to create new token")
          => last.code = "401 invalid token"

\* C20: a request with no Authorization header and one whose header is not
\* "Bearer <token>" are answered 401 without the protected handler being
\* run, by either middleware, with an error code that differs between the
\* two kinds of header.
C20_HeaderErrors ==
    (last.op \in {"RequireAuth", "WithJWTAuth"} /\ last.hdr # "bearer") =>
        /\ ~last.ok
        /\ last.resp.status = "401"
        /\ \A cacheOk \in BOOLEAN :
              ResponseTo(last.op, NoHeader, cacheOk).code
                  # ResponseTo(last.op, OtherHeader, cacheOk).code
\* C21: the JWKS endpoint answers with the cached JWKS blob unchanged when its
\* read finds the entry, and with 500 and no key material when the entry is
\* missing or the read fails.
C21_JWKSServesCache ==
    last.op = "JWKSHandler" =>
        IF last.code = "hit"
        THEN last.resp.status = "200" /\ Live(jwks) /\ last.body = jwks.keys
        ELSE last.resp.status = "500" /\ last.body = {}

C21_Witness ==
    /\ last.op = "JWKSHandler"
    /\ last.code = "hit"
    /\ last.body # {}
    /\ last.body # {JWK(k) : k \in keyset.keys}

\* C22: every KeySet read made for issuance or validation (CreateJWT,
\* validateToken, the key lookup of RequireAuth) is made holding the read
\* lock of keyMutex, and every KeySet write holding its exclusive lock.
C22_KeySetAccessLocked ==
    /\ last.op \in {"loadOrGenerateKeys", "InitializeKeys"} => last.lock = "Lock"
    /\ last.op \in {"CreateJWT", "WithJWTAuth"} => last.lock = "RLock"
    /\ (last.op = "RequireAuth" /\ last.reads > 0) => last.lock = "RLock"

\* C23: for every non-empty KeySet, the token CreateJWT returns is signed
\* with, and carries the kid of, the key of the KeySet whose CreatedAt is the
\* latest.
C23_SignsWithLatest ==
    (last.op = "CreateJWT" /\ last.ok) =>
        \E k \in keyset.keys :
            /\ \A j \in keyset.keys : j.createdAt <= k.createdAt
            /\ last.out.kid = k.kid
            /\ last.out.mat = k.mat

C23_Witness ==
    /\ last.op = "CreateJWT"
    /\ last.ok
    /\ Cardinality(keyset.keys) > 1
    /\ \E j \in keyset.keys : j.createdAt < now /\ j.kid # last.out.kid

\* The keys generated so far that the state still shows, as <<kid, material>>:
\* those of the KeySet and the JWKS, of the maps that calls in flight built,
\* and those that signed the issued tokens.
KnownKeys ==
    {<<k.kid, k.mat>> : k \in keyset.keys \cup jwks.keys}
        \cup {<<k.kid, k.mat>> : k \in UNION {initLoc[p].keysMap : p \in InitProcs}}
        \cup {<<t.kid, t.mat>> : t \in issued}

\* C24: a key generateKey produces gets a kid that no key generated before
\* it has, keys generated in the same second or by another process included:
\* no two different keys share a kid.
C24_KidsUnique ==
    \A a, b \in KnownKeys : a[1] = b[1] => a[2] = b[2]

\* C25: a tick of the jwks-refresh job whose refresh fails leaves the job in
\* its loop, waiting for the next tick; the job leaves the loop on SIGINT or
\* SIGTERM only, and does not enter it when its initial key initialization
\* fails.
C25_JobKeepsTicking ==
    [][/\ (jobUp /\ ~jobUp') => last'.op = "quit"
       /\ (last'.op = "InitializeKeys" /\ last'.proc = "job" /\ last'.tick) =>
              jobUp' /\ initPc'["job"] = "idle"
       /\ (last'.op = "InitializeKeys" /\ last'.proc = "job" /\ ~last'.tick) =>
              jobUp' = last'.ok]_vars

C25_Witness ==
    /\ last.op = "InitializeKeys"
    /\ last.proc = "job"
    /\ last.tick
    /\ ~last.ok
    /\ jobUp

\* C26: Logout is idempotent.  An authenticated Logout fails only when the
\* cache delete fails, whether the user has a session entry or not; when it
\* succeeds the user has no session entry and nothing else in the cache has
\* changed, so that a Logout of a user without an entry changes nothing.
C26_LogoutIdempotent ==
    [][(last'.op = "Logout" /\ last'.user # "") =>
          /\ last'.ok = (last'.code # "del failed")
          /\ last'.resp.status = IF last'.ok THEN "200" ELSE "500"
          /\ last'.ok =>
                /\ sessions' = [sessions EXCEPT ![last'.user] = Absent]
                /\ sessions[last'.user] = Absent => sessions' = sessions
                /\ <<keyset, jwks, issued>>' = <<keyset, jwks, issued>>]_vars

C26_Witness ==
    /\ last.op = "Logout"
    /\ last.ok
    /\ ~last.had
    /\ hist[last.user].state = "loggedOut"

\* C27: when ResetPassword has succeeded for a user, the user's sessions
\* from before the reset are gone: the session entry no longer holds a token
\* issued before the call, and no such token authenticates.
C27_ResetInvalidatesSessions ==
    [][(last'.op = "ResetPassword" /\ last'.ok) =>
          /\ ~(/\ sessions'[last'.user].present
               /\ now' < sessions'[last'.user].expAt
               /\ sessions'[last'.user].tok \in resetLoc[last'.proc].before)
          /\ \A t \in resetLoc[last'.proc].before :
                RequireAuthCode(t, TRUE)' # "ok"]_vars

\* C28: Signin issues a token only for a user that is active and whose
\* address is verified; for any other user it returns no token and writes
\* no session entry.
C28_SigninNeedsActiveVerified ==
    [][(last'.op = "Signin"
          /\ ~(users[last'.user].active /\ users[last'.user].verified)) =>
          /\ ~last'.ok
          /\ last'.out = NoToken
          /\ sessions' = sessions
          /\ issued' = issued]_vars

\* C29: a reset token is used once: at most one ResetPassword call changes
\* the password with it, and a call that begins after one has succeeded
\* fails with "invalid or expired reset token".
C29_ResetTokenSingleUse ==
    /\ \A i \in DOMAIN passwordResets : passwordResets[i].changes <= 1
    /\ (last.op = "ResetPassword" /\ last.second) =>
          (~last.ok /\ last.code = "invalid or expired reset token")

\* C30: assigning a role, removing a role, updating a role's permissions and
\* reading the audit logs are executed only for an authenticated actor who
\* holds admin permissions; an authenticated actor without them is refused
\* and no role assignment, role permission or audit log changes.
C30_RoleManagementNeedsAdmin ==
    [][(last'.op \in {"AssignRole", "RemoveRole", "UpdateRolePermissions",
                      "GetAuditLogs"}
          /\ ~(last'.user # "" /\ HoldsAdmin(last'.user))) =>
          /\ ~last'.ok
          /\ UNCHANGED <<userRoles, rolePermissions, auditLogs>>]_vars

\* The holders of a role in user_roles.
Holders(role) == {a[1] : a \in {b \in userRoles : b[2] = role}}

\* C31: a role with max_users = N never has more than N holders, whatever
\* the sequence or interleaving of AssignRole calls.
C31_MaxUsersHolds ==
    \A r \in roles :
        RoleConfig[r].maxUsers # 0 =>
            Cardinality(Holders(r)) <= RoleConfig[r].maxUsers

\* C32: UpdateRolePermissions on a role with is_system = true returns an
\* error, changes none of the role's permission assignments and writes no
\* audit log.
C32_SystemRoleProtected ==
    [][(last'.op = "UpdateRolePermissions" /\ RoleConfig[last'.role].isSystem) =>
          /\ ~last'.ok
          /\ last'.resp.status \in {"401", "403"}
          /\ rolePermissions' = rolePermissions
          /\ auditLogs' = auditLogs]_vars

\* An authenticated request to update a system role has been refused by the
\* service.
C32_Witness ==
    /\ last.op = "UpdateRolePermissions"
    /\ RoleConfig[last.role].isSystem
    /\ last.user # ""
    /\ last.resp = Response("403", "FORBIDDEN",
                            "cannot modify permissions of system role")

\* C33: at most one user holds the super-admin role at any time, whatever
\* the sequence or interleaving of create-superuser invocations.
C33_OneSuperAdmin == Cardinality(Holders("super-admin")) <= 1

\* C34: init is idempotent: a run that follows a run, both completing, leaves
\* the permissions, the roles and the role-permission assignments as the
\* first left them, and creates nothing.
C34_BootstrapIdempotent ==
    [][(last.op = "runInit" /\ last.ok /\ last'.op = "runInit" /\ last'.ok) =>
          /\ permissions' = permissions
          /\ roles' = roles
          /\ rolePermissions' = rolePermissions
          /\ last'.created = {}]_vars

\* C35: ForgotPassword does not reveal whether an address is registered:
\* whatever the token generation and the delivery of the email do, a request
\* is answered as one for an address that is not registered is.
C35_ForgotPasswordUniform ==
    last.op = "ForgotPassword" =>
        last.resp = ForgotPasswordResponse(FALSE, TRUE, TRUE)

\* A step of RequireAuth or WithJWTAuth, or the validateToken step of
\* RefreshToken.
ValidationStep ==
    \/ last'.op \in {"RequireAuth", "WithJWTAuth"}
    \/ \E w \in Workers :
          /\ rpc[w] = "idle"
          /\ last'.proc = w
          /\ last'.op \in {"refresh", "RefreshToken"}

\* C36: validating a token (validateToken, WithJWTAuth, RequireAuth) is a pure
\* read: whether the token is accepted or refused, no session entry, nor the
\* KeySet entry, nor the JWKS entry is created, changed or deleted.
C36_ValidationReadsOnly ==
    [][ValidationStep => UNCHANGED <<sessions, keyset, jwks>>]_vars

\* A token has been refused while the session entry of the user it names and
\* the KeySet were there.
C36_Witness ==
    /\ last.op \in {"RequireAuth", "WithJWTAuth"}
    /\ ~last.ok
    /\ last.tok.sub \in Users
    /\ Live(sessions[last.tok.sub])
    /\ Live(keyset)

\* C37: only the registered token ends a user's session: a Logout request
\* made with a token that a newer one has superseded, or that has been
\* revoked, is refused and deletes no session entry.
C37_LogoutNeedsCurrentToken ==
    [][(last'.op = "Logout"
          /\ last'.tok \in issued
          /\ ~SessionHolds(last'.tok, TRUE)) =>
          /\ ~last'.ok
          /\ sessions' = sessions]_vars

\* C38: when issuing the replacement token fails inside RefreshToken, the
\* session entry of the old token is left in place and the old token
\* validates as it did.
C38_FailedRefreshKeepsSession ==
    [][(last'.op = "RefreshToken"
          /\ last'.code = "500 failed to create new token") =>
          /\ sessions' = sessions
          /\ \A t \in issued :
                t = rloc[last'.proc].tok =>
                    /\ SessionHolds(t, TRUE) => SessionHolds(t, TRUE)'
                    /\ WithJWTAuthCode(t, TRUE)' = WithJWTAuthCode(t, TRUE)
                    /\ RequireAuthCode(t, TRUE)' = RequireAuthCode(t, TRUE)]_vars

\* A refresh has failed in CreateJWT, and the session entry holds the old
\* token, which validates.
C38_Witness ==
    /\ last.op = "RefreshToken"
    /\ last.code = "500 failed to create new token"
    /\ SessionHolds(last.tok, TRUE)
    /\ WithJWTAuthCode(last.tok, TRUE) = "ok"

\* C39: the ExpiresAt Signin returns is the exp claim of the token it
\* returns, and the session entry runs out within that second: a client is
\* not told a token is valid at a time validation refuses it as expired.
C39_ExpiresAtIsExp ==
    (last.op = "Signin" /\ last.ok) =>
        /\ last.expiresAt = last.out.exp
        /\ last.expiresAt + 1 = sessions[last.user].expAt

====
